---- MODULE Spec2Model ----
(***************************************************************************)
(* Model of the assistant-driven transaction workflow of the banking demo: *)
(* the account operations of App.tsx (transferMoney, makeAccountPayment,   *)
(* requestPaymentExtension, addCardToUser, addLoanToUser,                  *)
(* verifyCurrentUserWithPasskey) and the tool dispatch of ChatModal.tsx    *)
(* (handleSend, handleFunctionCall, the voice onmessage tool-call loop).   *)
(*                                                                         *)
(* Stored state is what lives in the document database; currentUser is the *)
(* React state of a signed-in client; h[c].snap is the currentUser value   *)
(* captured by the closure of the handler that is running.  Every await of *)
(* the source is a separate step, so other clients interleave there.       *)
(* Money is in whole units and dates are in days.                          *)
(***************************************************************************)
EXTENDS Integers, Sequences, FiniteSets, TLC

\* ------------------------------------------------------------------ bounds
\* Largest amount the provider puts in a tool call.
MaxAmount == 2
\* Tool calls in one provider turn.
MaxBatch == 2
\* Tool calls in one run; a provider turn without calls counts as one.
MaxCalls == 2

\* ------------------------------------------------------- program constants
ExtensionDays == 14
MaxStarts == 2
MaxSources == 2
MaxTime == 3
\* Characters in the two running transcripts together.
MaxText == 2
\* Messages of a conversation after which no turn is completed.
MaxMessages == 3
MaxFetches == 1
MaxChats == 3

Users == {1, 2, 3}

\* An argument the provider left out (undefined in the source).
Absent == "<absent>"

\* The static fields of the users collection.  "X9" is both the display
\* name of user 2 and the savings account number of user 3.
UserDoc(u) ==
    CASE u = 1 -> [name |-> "Alice", savingsAccountNumber |-> "A1",
                   email |-> "E1", phone |-> "P1", username |-> "alice"]
      [] u = 2 -> [name |-> "X9", savingsAccountNumber |-> "A2",
                   email |-> "E2", phone |-> "P2", username |-> "bob"]
      [] u = 3 -> [name |-> "Carol", savingsAccountNumber |-> "X9",
                   email |-> "E3", phone |-> "P3", username |-> "carol"]

\* String.prototype.toLowerCase on the identifiers of the model.
toLowerCase(s) ==
    CASE s = "Alice" -> "alice"
      [] s = "Carol" -> "carol"
      [] s = "BOB"   -> "bob"
      [] s = "X9"    -> "x9"
      [] s = "A1"    -> "a1"
      [] s = "A2"    -> "a2"
      [] s = "E1"    -> "e1"
      [] s = "E2"    -> "e2"
      [] s = "E3"    -> "e3"
      [] s = "P1"    -> "p1"
      [] s = "P2"    -> "p2"
      [] s = "P3"    -> "p3"
      [] OTHER       -> s

VARIABLES
    balance,      \* users/{uid}.balance in the database
    cards,        \* users/{uid}/cards in the database, a sequence of cards
    loans,        \* users/{uid}/loans in the database, a sequence of loans
    ledger,       \* the transactions collection, in insertion order
    currentUser,  \* React state currentUser of each client
    passkeys,     \* number of passkeys enrolled by each client
    voice,        \* voice session of each client: [on, snap]
    modal,        \* state and refs of the ChatModal of each client
    messages,     \* the chat message list of each client
    h,            \* the running handler of each client
    nextCall,     \* id given to the next tool call
    invoked,      \* history, per client: account operations that were invoked
    challenges,   \* history, per client: passkey challenges and their outcome
    toModel,      \* history, per client: messages of tool results sent to the provider
    done          \* history, per client: every tool result and what the call did

store == <<balance, cards, loans, ledger>>
hist  == <<invoked, challenges, toModel, done>>
vars  == <<balance, cards, loans, ledger, currentUser, passkeys, voice, modal,
           messages, h, nextCall, invoked, challenges, toModel, done>>

\* ------------------------------------------------------------ small helpers
RECURSIVE SumOver(_, _)
SumOver(f, S) ==
    IF S = {} THEN 0
    ELSE LET x == CHOOSE y \in S : TRUE IN f[x] + SumOver(f, S \ {x})

Max(a, b) == IF a > b THEN a ELSE b

\* cardNumber is <<leading digits, last four digits>>; slice(-4) is the tail.
slice4(cardNumber) == cardNumber[2]

\* Index of the first element of the indices S, 0 when S is empty
\* (Array.prototype.find returns the first match).
First(S) == IF S = {} THEN 0 ELSE CHOOSE i \in S : \A j \in S : i <= j

\* cards.find(c => c.cardNumber.slice(-4) === accountId)
FindCard(cs, accountId) ==
    First({i \in 1..Len(cs) : slice4(cs[i].cardNumber) = accountId})

\* loans.find(l => l.id === accountId)
FindLoan(ls, accountId) ==
    First({i \in 1..Len(ls) : ls[i].id = accountId})

\* JavaScript falsiness of an optional string argument.
Falsy(x) == x \in {Absent, ""}

\* a || b || c || d  (the last operand when all are falsy)
OrElse4(a, b, c, d) ==
    IF ~Falsy(a) THEN a ELSE IF ~Falsy(b) THEN b ELSE IF ~Falsy(c) THEN c ELSE d

\* ------------------------------------------------------------- tool calls
NoArgs == [recipientName |-> Absent, recipientAccountNumber |-> Absent,
           recipientEmail |-> Absent, recipientPhone |-> Absent,
           amount |-> 0, hasAmount |-> FALSE,
           accountId |-> "", accountType |-> "card", paymentType |-> "minimum",
           loanAmount |-> 0, cardLast4 |-> Absent]

MkCall(name, args) == [id |-> 0, name |-> name, args |-> args]

\* The list with one name forgotten.
sensitiveActionsShort ==
    {"initiatePayment", "makeAccountPayment", "applyForCreditCard", "applyForLoan"}

sensitiveActions ==
    {"initiatePayment", "makeAccountPayment", "applyForCreditCard",
     "applyForLoan", "requestPaymentExtension"}

\* The handler of a client when nothing is running.  snap is the currentUser
\* captured by the closure, calls the tool calls still to process (the head
\* is the current one), parts the functionResponseParts collected so far,
\* loc the local variables of the account operation in progress, start the
\* stored state when the loop took up the current call (history), batch the
\* ids of the functionCalls of the provider turn being processed, failed
\* whether the last send ended in the catch block (history), chat the session
\* the closure of handleSend holds.
NoChat == [id |-> 0]

Idle == [pc |-> "idle", mode |-> "text",
         snap |-> [balance |-> 0, cards |-> <<>>, loans |-> <<>>],
         calls |-> <<>>, parts |-> <<>>, isVerified |-> FALSE, loc |-> <<>>,
         start |-> <<>>, batch |-> <<>>, failed |-> FALSE, chat |-> NoChat]

Ret(success, message) == [kind |-> "ret", success |-> success, message |-> message]
Throw(message) == [kind |-> "throw", success |-> FALSE, message |-> message]

Msg(sender, text) == [sender |-> sender, text |-> text]

\* The failed send leaves no message.
ShowNothing(ms) == ms

\* catch: setMessages(prev => [...prev, errorMessage]) with t('chatError')
ShowError(ms) == Append(ms, Msg("system", "chatError"))

\* The stored state a call can touch, as the loop found it.
StoreNow(c) == [balance |-> balance, cards |-> cards[c], loans |-> loans[c],
                ledger |-> Len(ledger)]

\* History record of a tool result: what was answered for the call, the
\* arguments and cached user it was computed from, and the stored state at
\* the start of the call and after this step.
Outcome(c, call, kind, success, message) ==
    [call |-> call.id, client |-> c, name |-> call.name, args |-> call.args,
     kind |-> kind, success |-> success, message |-> message,
     snap |-> h[c].snap, start |-> h[c].start,
     balanceAfter |-> balance', cardsAfter |-> cards'[c], loansAfter |-> loans'[c],
     entries |-> Len(ledger') - h[c].start.ledger]

\* The handler goes on to its next await; nothing is reported yet.
Continue(c, pc, loc) ==
    /\ h' = [h EXCEPT ![c].pc = pc, ![c].loc = loc]
    /\ UNCHANGED <<messages, toModel, done>>

\* The call that was just answered is taken up again.
SameCalls(calls) == calls

\* for (const call of functionCalls): the iteration moves on to the next call.
Remaining(calls) == Tail(calls)

\* The account operation of the current call returned res (or threw).
\* Text mode (handleSend): the message is shown and the result is pushed to
\* functionResponseParts; an exception goes to the catch block, which shows
\* chatError, and finally clears isLoading.  Voice mode (onmessage): the
\* result is sent with sendToolResponse if the session is still current; an
\* exception rejects the promise of the callback.
FinishCall(c, res) ==
    LET call == Head(h[c].calls)
        part == [call |-> call.id, name |-> call.name,
                 success |-> res.success, message |-> res.message]
    IN  /\ done' = [done EXCEPT ![c] = Append(@, Outcome(c, call, res.kind, res.success, res.message))]
        /\ IF res.kind = "throw"
           THEN /\ h' = [h EXCEPT ![c] = [Idle EXCEPT !.failed = (h[c].mode = "text")]]
                /\ messages' = IF h[c].mode = "text"
                                THEN [messages EXCEPT ![c] = ShowError(@)]
                                ELSE messages
                /\ toModel' = toModel
           ELSE /\ h' = [h EXCEPT ![c].pc = "loop", ![c].loc = <<>>,
                                  ![c].calls = Remaining(@),
                                  ![c].parts = IF h[c].mode = "text" THEN Append(@, part) ELSE @]
                /\ messages' = IF h[c].mode = "text"
                                THEN [messages EXCEPT ![c] = Append(@, Msg("system", res.message))]
                                ELSE messages
                /\ toModel' = IF h[c].mode = "voice" /\ voice[c].on
                               THEN [toModel EXCEPT ![c] = Append(@, <<part>>)]
                               ELSE toModel

Invoke(c, op) ==
    invoked' = [invoked EXCEPT ![c] =
                  Append(@, [call |-> Head(h[c].calls).id, client |-> c, op |-> op,
                             name |-> Head(h[c].calls).name, mode |-> h[c].mode])]

AtCall(c, name) ==
    /\ h[c].pc = "dispatch"
    /\ Head(h[c].calls).name = name

\* ------------------------------------------------------------ transferMoney
RECURSIVE SortedSeq(_)
SortedSeq(S) ==
    IF S = {} THEN <<>>
    ELSE LET m == CHOOSE x \in S : \A y \in S : x <= y
         IN  <<m>> \o SortedSeq(S \ {m})

\* usersRef.where(field, "==", value).get(): the matching documents.
Where(field, value) == SortedSeq({u \in Users : UserDoc(u)[field] = value})

\* results.flatMap(snap => snap.docs) for the five queries q1..q5.
QueryResults(recipientIdentifier) ==
    Where("name", recipientIdentifier)
      \o Where("savingsAccountNumber", recipientIdentifier)
      \o Where("email", recipientIdentifier)
      \o Where("phone", recipientIdentifier)
      \o Where("username", toLowerCase(recipientIdentifier))

\* The recipientDoc of transferMoney, 0 when there is none.
RecipientDoc(recipientIdentifier) ==
    LET results == QueryResults(recipientIdentifier)
    IN  IF results = <<>> THEN 0 ELSE results[1]

\* handleFunctionCall picks the identifier passed to transferMoney.
RecipientIdentifier(args) ==
    OrElse4(args.recipientAccountNumber, args.recipientEmail,
            args.recipientPhone, args.recipientName)

\* The comparison with zero made strict: an amount of 0 passes.
NotPositiveStrict(amount) == amount < 0

\* if (amount <= 0) of transferMoney
NotPositive(amount) == amount <= 0

\* handleFunctionCall -> transferMoney, up to the await of the five queries.
CallInitiatePayment(c) ==
    /\ AtCall(c, "initiatePayment")
    /\ UNCHANGED <<store, currentUser, passkeys, modal, voice, nextCall, challenges>>
    /\ Invoke(c, "transferMoney")
    /\ LET args == Head(h[c].calls).args
           recipientIdentifier == RecipientIdentifier(args)
           amount == args.amount
       IN  IF NotPositive(amount)
           THEN FinishCall(c, Ret(FALSE, "Error: Payment amount must be positive."))
           ELSE IF h[c].snap.balance < amount
           THEN FinishCall(c, Ret(FALSE, "Error: Insufficient funds."))
           ELSE IF recipientIdentifier = Absent
           THEN FinishCall(c, Throw("TypeError"))
           ELSE Continue(c, "tmQuery", [recipientIdentifier |-> recipientIdentifier,
                                        amount |-> amount])

\* The five queries resolve; recipient.balance is read here.
TmQuery(c) ==
    /\ h[c].pc = "tmQuery"
    /\ UNCHANGED <<store, currentUser, passkeys, modal, voice, nextCall, invoked, challenges>>
    /\ LET recipient == RecipientDoc(h[c].loc.recipientIdentifier)
       IN  IF recipient = 0
           THEN FinishCall(c, Ret(FALSE, "Error: Contact or account not found."))
           ELSE IF recipient = c
           THEN FinishCall(c, Ret(FALSE, "Error: Cannot send money to yourself."))
           ELSE Continue(c, "tmTxn", [amount |-> h[c].loc.amount,
                                      recipient |-> recipient,
                                      recipientBalance |-> balance[recipient]])

\* db.runTransaction: reads the sender, writes the sender and the recipient.
TmTxn(c) ==
    /\ h[c].pc = "tmTxn"
    /\ UNCHANGED <<cards, loans, ledger, currentUser, passkeys, modal, voice, nextCall,
                   invoked, challenges>>
    /\ LET loc == h[c].loc
       IN  IF balance[c] < loc.amount
           THEN /\ balance' = balance
                /\ FinishCall(c, Ret(FALSE, "Insufficient funds."))
           ELSE /\ balance' = [balance EXCEPT ![c] = balance[c] - loc.amount,
                                              ![loc.recipient] = loc.recipientBalance + loc.amount]
                /\ Continue(c, "tmDebit", loc)

Tx(uid, type, amount, partyName) ==
    [uid |-> uid, type |-> type, amount |-> amount, partyName |-> partyName,
     category |-> "Transfers"]

\* transactionsRef.add of the sender's debit entry; the write can fail.
TmAddDebit(c) ==
    /\ h[c].pc = "tmDebit"
    /\ UNCHANGED <<balance, cards, loans, currentUser, passkeys, modal, voice, nextCall,
                   invoked, challenges>>
    /\ LET loc == h[c].loc
       IN  \E ok \in BOOLEAN :
             IF ok
             THEN /\ ledger' = Append(ledger, Tx(c, "debit", loc.amount, UserDoc(loc.recipient).name))
                  /\ Continue(c, "tmCredit", loc)
             ELSE /\ ledger' = ledger
                  /\ FinishCall(c, Ret(FALSE, "write failed"))

\* transactionsRef.add of the recipient's credit entry, then setCurrentUser.
TmAddCredit(c) ==
    /\ h[c].pc = "tmCredit"
    /\ UNCHANGED <<balance, cards, loans, passkeys, modal, voice, nextCall,
                   invoked, challenges>>
    /\ LET loc == h[c].loc
       IN  \E ok \in BOOLEAN :
             IF ok
             THEN /\ ledger' = Append(ledger, Tx(loc.recipient, "credit", loc.amount, UserDoc(c).name))
                  /\ currentUser' = [currentUser EXCEPT ![c].balance = @ - loc.amount]
                  /\ FinishCall(c, Ret(TRUE, "Success! You sent money."))
             ELSE /\ ledger' = ledger
                  /\ currentUser' = currentUser
                  /\ FinishCall(c, Ret(FALSE, "write failed"))

\* ------------------------------------------------------- makeAccountPayment
\* A missing or zero custom amount replaced by a default of one unit.
CustomOrOne(args) == IF args.hasAmount /\ args.amount # 0 THEN args.amount ELSE 1

\* customAmount || 0
CustomOrZero(args) == IF args.hasAmount /\ args.amount # 0 THEN args.amount ELSE 0

\* The switch on paymentType of the card branch; paymentAmount starts at 0.
CardPaymentAmount(card, args) ==
    CASE args.paymentType = "minimum"   -> card.minimumPayment
      [] args.paymentType = "statement" -> card.statementBalance
      [] args.paymentType = "full"      -> card.creditBalance
      [] args.paymentType = "custom"    -> CustomOrZero(args)
      [] OTHER                          -> 0

\* The switch on paymentType of the loan branch, before the cap.
LoanPaymentAmount(loan, args) ==
    CASE args.paymentType = "minimum" -> loan.monthlyPayment
      [] args.paymentType = "full"    -> loan.remainingBalance
      [] args.paymentType = "custom"  -> CustomOrZero(args)
      [] OTHER                        -> loan.monthlyPayment

\* if (paymentAmount > loan.remainingBalance) paymentAmount = loan.remainingBalance
CapToRemaining(paymentAmount, loan) ==
    IF paymentAmount > loan.remainingBalance THEN loan.remainingBalance ELSE paymentAmount

\* t.update(cardRef, {...}): the stored card with this document id.
UpdateCardDoc(cs, cardNumber, creditBalance, statementBalance) ==
    [i \in 1..Len(cs) |->
        IF cs[i].cardNumber = cardNumber
        THEN [cs[i] EXCEPT !.creditBalance = creditBalance,
                           !.statementBalance = statementBalance]
        ELSE cs[i]]

\* t.update(loanRef, {remainingBalance}) and, at zero, {status: 'Paid Off'}.
UpdateLoanDoc(ls, id, newRemainingBalance) ==
    [i \in 1..Len(ls) |->
        IF ls[i].id = id
        THEN [ls[i] EXCEPT !.remainingBalance = newRemainingBalance,
                           !.status = IF newRemainingBalance <= 0 THEN "Paid Off" ELSE @]
        ELSE ls[i]]

\* handleFunctionCall -> makeAccountPayment, up to the await of runTransaction.
CallMakeAccountPayment(c) ==
    /\ AtCall(c, "makeAccountPayment")
    /\ Invoke(c, "makeAccountPayment")
    /\ Continue(c, "mpTxn", <<>>)
    /\ UNCHANGED <<store, currentUser, passkeys, modal, voice, nextCall, challenges>>

\* The body of db.runTransaction in makeAccountPayment.  The user document
\* is read in the transaction; the card or loan comes from the closure's
\* currentUser.  A throw inside is caught and returned as success: false.
MpTxn(c) ==
    /\ h[c].pc = "mpTxn"
    /\ UNCHANGED <<ledger, currentUser, passkeys, modal, voice, nextCall, invoked, challenges>>
    /\ LET args == Head(h[c].calls).args
           snap == h[c].snap
           userData == [balance |-> balance[c]]
       IN  IF args.accountType = "card"
           THEN LET i == FindCard(snap.cards, args.accountId)
                IN  IF i = 0
                    THEN /\ UNCHANGED <<balance, cards, loans>>
                         /\ FinishCall(c, Ret(FALSE, "Card not found."))
                    ELSE LET card == snap.cards[i]
                             paymentAmount == CardPaymentAmount(card, args)
                         IN  IF paymentAmount <= 0
                             THEN /\ UNCHANGED <<balance, cards, loans>>
                                  /\ FinishCall(c, Ret(FALSE, "A valid payment amount is required."))
                             ELSE IF userData.balance < paymentAmount
                             THEN /\ UNCHANGED <<balance, cards, loans>>
                                  /\ FinishCall(c, Ret(FALSE, "Insufficient funds."))
                             ELSE /\ balance' = [balance EXCEPT ![c] = userData.balance - paymentAmount]
                                  /\ cards' = [cards EXCEPT ![c] =
                                        UpdateCardDoc(@, card.cardNumber,
                                                      Max(0, card.creditBalance - paymentAmount),
                                                      Max(0, card.statementBalance - paymentAmount))]
                                  /\ loans' = loans
                                  /\ FinishCall(c, Ret(TRUE, "Successfully paid towards your card."))
           ELSE LET i == FindLoan(snap.loans, args.accountId)
                IN  IF i = 0
                    THEN /\ UNCHANGED <<balance, cards, loans>>
                         /\ FinishCall(c, Ret(FALSE, "Loan not found."))
                    ELSE LET loan == snap.loans[i]
                             requested == LoanPaymentAmount(loan, args)
                             paymentAmount == CapToRemaining(requested, loan)
                             newRemainingBalance == loan.remainingBalance - paymentAmount
                         IN  IF requested <= 0
                             THEN /\ UNCHANGED <<balance, cards, loans>>
                                  /\ FinishCall(c, Ret(FALSE, "A valid payment amount is required."))
                             ELSE IF userData.balance < paymentAmount
                             THEN /\ UNCHANGED <<balance, cards, loans>>
                                  /\ FinishCall(c, Ret(FALSE, "Insufficient funds."))
                             ELSE /\ balance' = [balance EXCEPT ![c] = userData.balance - paymentAmount]
                                  /\ loans' = [loans EXCEPT ![c] =
                                        UpdateLoanDoc(@, loan.id, newRemainingBalance)]
                                  /\ cards' = cards
                                  /\ FinishCall(c, Ret(TRUE,
                                        IF newRemainingBalance <= 0
                                        THEN "Successfully paid off your loan."
                                        ELSE "Successfully paid towards your loan."))

\* -------------------------------------------------- requestPaymentExtension
UpdateDueDate(docs, key, id, newDueDate) ==
    [i \in 1..Len(docs) |->
        IF docs[i][key] = id THEN [docs[i] EXCEPT !.paymentDueDate = newDueDate]
        ELSE docs[i]]

\* handleFunctionCall -> requestPaymentExtension, up to the await of update.
\* Math.random() < 0.1 rejects the request.
CallRequestPaymentExtension(c) ==
    /\ AtCall(c, "requestPaymentExtension")
    /\ UNCHANGED <<store, currentUser, passkeys, modal, voice, nextCall, challenges>>
    /\ Invoke(c, "requestPaymentExtension")
    /\ LET args == Head(h[c].calls).args
           snap == h[c].snap
           ci == FindCard(snap.cards, args.accountId)
           li == FindLoan(snap.loans, args.accountId)
       IN  \E rejected \in BOOLEAN :
             IF rejected
             THEN FinishCall(c, Ret(FALSE, "We were unable to process a payment extension."))
             ELSE IF args.accountType = "card"
             THEN IF ci = 0
                  THEN FinishCall(c, Ret(FALSE, "Error: Card not found."))
                  ELSE Continue(c, "rpUpdate",
                                [type |-> "card", id |-> snap.cards[ci].cardNumber,
                                 newDueDate |-> snap.cards[ci].paymentDueDate + ExtensionDays])
             ELSE IF li = 0
                  THEN FinishCall(c, Ret(FALSE, "Error: Loan not found."))
                  ELSE Continue(c, "rpUpdate",
                                [type |-> "loan", id |-> snap.loans[li].id,
                                 newDueDate |-> snap.loans[li].paymentDueDate + ExtensionDays])

\* docRef.update({ paymentDueDate }) and the return of the new due date.
RpUpdate(c) ==
    /\ h[c].pc = "rpUpdate"
    /\ UNCHANGED <<balance, ledger, currentUser, passkeys, modal, voice, nextCall,
                   invoked, challenges>>
    /\ LET loc == h[c].loc
       IN  /\ cards' = IF loc.type = "card"
                       THEN [cards EXCEPT ![c] = UpdateDueDate(@, "cardNumber", loc.id, loc.newDueDate)]
                       ELSE cards
           /\ loans' = IF loc.type = "loan"
                       THEN [loans EXCEPT ![c] = UpdateDueDate(@, "id", loc.id, loc.newDueDate)]
                       ELSE loans
    /\ FinishCall(c, Ret(TRUE, "Success! Your payment due date has been extended."))

\* ------------------------------------------------------------ addCardToUser
\* generateMockCard: the number, balances and minimum payment are random;
\* no call of the model pays the new card, so one draw stands for all.
generateMockCard ==
    { [cardNumber |-> <<"5000", "2222">>, creditBalance |-> 1, statementBalance |-> 1,
       minimumPayment |-> 1, paymentDueDate |-> 45] }

\* collection(cards).doc(cardNumber).set(card)
SetDoc(docs, key, doc) ==
    IF \E i \in 1..Len(docs) : docs[i][key] = doc[key]
    THEN [i \in 1..Len(docs) |-> IF docs[i][key] = doc[key] THEN doc ELSE docs[i]]
    ELSE Append(docs, doc)

\* handleFunctionCall -> addCardToUser; Math.random() < 0.2 rejects.
CallApplyForCreditCard(c) ==
    /\ AtCall(c, "applyForCreditCard")
    /\ UNCHANGED <<store, currentUser, passkeys, modal, voice, nextCall, challenges>>
    /\ Invoke(c, "addCardToUser")
    /\ \E rejected \in BOOLEAN :
         IF rejected
         THEN FinishCall(c, Ret(FALSE, "We were unable to approve your credit card application."))
         ELSE \E newCard \in generateMockCard : Continue(c, "acSet", [newCard |-> newCard])

AcSet(c) ==
    /\ h[c].pc = "acSet"
    /\ UNCHANGED <<balance, loans, ledger, passkeys, modal, voice, nextCall,
                   invoked, challenges>>
    /\ cards' = [cards EXCEPT ![c] = SetDoc(@, "cardNumber", h[c].loc.newCard)]
    /\ currentUser' = [currentUser EXCEPT ![c].cards = Append(@, h[c].loc.newCard)]
    /\ FinishCall(c, Ret(TRUE, "Your new card has been approved."))

\* ------------------------------------------------------------ addLoanToUser
\* `loan-${uid}-${Date.now()}`: one id per creation time.
LoanIds == << <<"loan-1-1", "loan-1-2", "loan-1-3", "loan-1-4", "loan-1-5", "loan-1-6">>,
              <<"loan-2-1", "loan-2-2", "loan-2-3", "loan-2-4", "loan-2-5", "loan-2-6">>,
              <<"loan-3-1", "loan-3-2", "loan-3-3", "loan-3-4", "loan-3-5", "loan-3-6">> >>

\* The new loan; the interest rate is random, so is the monthly payment,
\* which is above loanAmount / loanTerm.  No call of the model pays the new
\* loan, so one draw stands for all.
newLoan(c, loanAmount, n) ==
    { [id |-> LoanIds[c][n], loanAmount |-> loanAmount, remainingBalance |-> loanAmount,
       monthlyPayment |-> Max(1, loanAmount), status |-> "Active", paymentDueDate |-> 30] }

\* handleFunctionCall -> addLoanToUser; Math.random() < 0.3 rejects.
CallApplyForLoan(c) ==
    /\ AtCall(c, "applyForLoan")
    /\ UNCHANGED <<store, currentUser, passkeys, modal, voice, nextCall, challenges>>
    /\ Invoke(c, "addLoanToUser")
    /\ \E rejected \in BOOLEAN :
         IF rejected
         THEN FinishCall(c, Ret(FALSE, "We were unable to approve your loan application."))
         ELSE \E l \in newLoan(c, Head(h[c].calls).args.loanAmount, Len(loans[c]) + 1) :
                Continue(c, "alTxn", [newLoan |-> l])

\* db.runTransaction: the principal is added to the stored balance.
AlTxn(c) ==
    /\ h[c].pc = "alTxn"
    /\ balance' = [balance EXCEPT ![c] = @ + h[c].loc.newLoan.loanAmount]
    /\ Continue(c, "alSet", h[c].loc)
    /\ UNCHANGED <<cards, loans, ledger, currentUser, passkeys, modal, voice, nextCall,
                   invoked, challenges>>

\* collection(loans).doc(id).set(newLoan), then setCurrentUser.
AlSet(c) ==
    /\ h[c].pc = "alSet"
    /\ UNCHANGED <<balance, cards, ledger, passkeys, modal, voice, nextCall,
                   invoked, challenges>>
    /\ LET l == h[c].loc.newLoan
       IN  /\ loans' = [loans EXCEPT ![c] = SetDoc(@, "id", l)]
           /\ currentUser' = [currentUser EXCEPT ![c].balance = @ + l.loanAmount,
                                                 ![c].loans = Append(@, l)]
    /\ FinishCall(c, Ret(TRUE, "Your loan has been approved."))

\* ------------------------------------------- calls that only read the cache
\* findCard of handleFunctionCall: the first card when no digits are given.
findCard(cs, last4) ==
    IF Falsy(last4) THEN (IF Len(cs) > 0 THEN 1 ELSE 0) ELSE FindCard(cs, last4)

\* The results of the branches of handleFunctionCall that call no account
\* operation; success is that of resultForModel, absent where the object has
\* no such field.  The transactions are those the context holds.
ReadOnlyResults(c, call) ==
    LET card == findCard(h[c].snap.cards, call.args.cardLast4)
    IN  CASE call.name = "getCardStatementDetails" ->
               IF card # 0 THEN {Ret(Absent, "Your card has a statement balance.")}
                           ELSE {Ret(FALSE, "Card not found.")}
          [] call.name = "getCardTransactions" ->
               IF card # 0 THEN {Ret(Absent, "Here are the latest transactions for your card.")}
                           ELSE {Ret(FALSE, "Card not found.")}
          [] call.name = "getAccountBalance" ->
               {Ret(TRUE, "Here's your balance summary.")}
          [] call.name = "getAccountTransactions" ->
               {Ret(TRUE, "Here are your last savings account transactions."),
                Ret(TRUE, "You have no transactions in your savings account.")}
          [] call.name = "getSpendingAnalysis" ->
               {Ret(Absent, "You have no spending data to analyze for this period."),
                Ret(Absent, "Based on my analysis, you've spent a total recently.")}
          [] OTHER ->
               {Ret(FALSE, "An unknown function was called.")}

\* The branches up to their return, getSpendingAnalysis up to await
\* getComprehensiveInsights.
CallReadOnly(c) ==
    /\ h[c].pc = "dispatch"
    /\ UNCHANGED <<store, currentUser, passkeys, modal, voice, nextCall, invoked, challenges>>
    /\ Head(h[c].calls).name \notin
          {"initiatePayment", "makeAccountPayment", "requestPaymentExtension",
           "applyForCreditCard", "applyForLoan"}
    /\ IF Head(h[c].calls).name = "getSpendingAnalysis"
       THEN Continue(c, "insights", <<>>)
       ELSE \E res \in ReadOnlyResults(c, Head(h[c].calls)) : FinishCall(c, res)

\* getComprehensiveInsights returns the analysis, or null.
InsightsReturn(c) ==
    /\ h[c].pc = "insights"
    /\ UNCHANGED <<store, currentUser, passkeys, modal, voice, nextCall, invoked, challenges>>
    /\ \E res \in ReadOnlyResults(c, Head(h[c].calls)) : FinishCall(c, res)

\* ------------------------------------------------------------- the passkey
\* The guard on passkeys.length dropped: the browser is asked in any case.
verifyWithoutEnrolment(c) == BOOLEAN

\* What verifyCurrentUserWithPasskey can return: false at once without an
\* enrolled passkey; otherwise the assertion is obtained (true) or the
\* challenge is declined, aborted or times out (false).
verifyCurrentUserWithPasskey(c) == IF passkeys[c] = 0 THEN {FALSE} ELSE BOOLEAN

\* A verification remembered for the rest of the conversation.
RequiresPasskeyOnce(c, name) ==
    /\ name \in sensitiveActions
    /\ ~\E j \in 1..Len(challenges[c]) : challenges[c][j].result

\* sensitiveActions.includes(call.name)
RequiresPasskey(c, name) == name \in sensitiveActions

\* --------------------------------------------------- handleSend (text mode)
\* The isLoading flag: set by handleSend before its first await and cleared
\* in its finally block.
NeverLoading(c) == FALSE

isLoading(c) == h[c].pc # "idle"

\* Guard and first statements of handleSend, up to the await of sendMessage.
\* The text input is covered by the voice overlay while voice mode is on.
HandleSend(c) ==
    /\ ~isLoading(c)
    /\ modal[c].chat # NoChat
    /\ ~voice[c].on
    /\ nextCall <= MaxCalls
    /\ messages' = [messages EXCEPT ![c] = Append(@, Msg("user", "prompt"))]
    /\ h' = [h EXCEPT ![c] = [Idle EXCEPT !.pc = "send", !.snap = currentUser[c],
                                          !.chat = modal[c].chat]]
    /\ UNCHANGED <<store, currentUser, passkeys, modal, voice, nextCall, hist>>

\* chat.sendMessage resolves with text only.
ProviderText(c) ==
    /\ h[c].pc = "send"
    /\ messages' = [messages EXCEPT ![c] = Append(@, Msg("ai", "text"))]
    /\ h' = [h EXCEPT ![c] = Idle]
    /\ nextCall' = nextCall + 1
    /\ UNCHANGED <<store, currentUser, passkeys, modal, voice, hist>>

\* chat.sendMessage rejects (first message or function responses): the catch
\* block shows chatError and finally clears isLoading.
ProviderFails(c) ==
    /\ h[c].pc \in {"send", "final"}
    /\ messages' = [messages EXCEPT ![c] = ShowError(@)]
    /\ h' = [h EXCEPT ![c] = [Idle EXCEPT !.failed = TRUE]]
    /\ nextCall' = IF h[c].pc = "send" THEN nextCall + 1 ELSE nextCall
    /\ UNCHANGED <<store, currentUser, passkeys, modal, voice, hist>>

\* The calls of one provider turn, numbered in the order they were issued.
Batches(CallSet) ==
    UNION { [1..n -> CallSet] : n \in 1..MaxBatch }

Numbered(batch) ==
    [i \in 1..Len(batch) |-> [batch[i] EXCEPT !.id = nextCall + i - 1]]

\* chat.sendMessage resolves with function calls.
ProviderCalls(c, CallSet) ==
    /\ h[c].pc = "send"
    /\ \E batch \in Batches(CallSet) :
         /\ nextCall + Len(batch) - 1 <= MaxCalls
         /\ h' = [h EXCEPT ![c].pc = "loop", ![c].calls = Numbered(batch),
                           ![c].batch = [i \in 1..Len(batch) |-> nextCall + i - 1]]
         /\ nextCall' = nextCall + Len(batch)
    /\ UNCHANGED <<store, currentUser, passkeys, modal, voice, messages, hist>>

\* Head of the for loop over the calls, in handleSend and in onmessage.
Loop(c) ==
    /\ h[c].pc = "loop"
    /\ IF h[c].calls = <<>>
       THEN /\ h' = [h EXCEPT ![c] = IF h[c].mode = "text"
                                     THEN [@ EXCEPT !.pc = "final"]
                                     ELSE Idle]
            /\ messages' = messages
       ELSE IF RequiresPasskey(c, Head(h[c].calls).name)
       THEN /\ h' = [h EXCEPT ![c].pc = "verify", ![c].isVerified = FALSE,
                              ![c].start = StoreNow(c)]
            /\ messages' = IF h[c].mode = "text"
                           THEN [messages EXCEPT ![c] =
                                   Append(@, Msg("system", "passkeyConfirmationRequired"))]
                           ELSE messages
       ELSE /\ h' = [h EXCEPT ![c].pc = "dispatch", ![c].isVerified = TRUE,
                              ![c].start = StoreNow(c)]
            /\ messages' = messages
    /\ UNCHANGED <<store, currentUser, passkeys, modal, voice, nextCall, hist>>

\* The declined call answered to the user only: nothing is pushed.
SkipCancelled(parts, part) == parts

\* functionResponseParts.push({ functionResponse: ... }) for a declined call
PushCancelled(parts, part) == Append(parts, part)

\* await verifyCurrentUserWithPasskey() returns.  Not verified: the call is
\* answered with a cancelled result and the loop goes to the next call.
VerifyReturns(c) ==
    /\ h[c].pc = "verify"
    /\ UNCHANGED <<store, currentUser, passkeys, modal, voice, nextCall, invoked>>
    /\ \E isVerified \in verifyCurrentUserWithPasskey(c) :
         LET call == Head(h[c].calls)
             part == [call |-> call.id, name |-> call.name, success |-> FALSE,
                      message |-> IF h[c].mode = "text"
                                  THEN "User cancelled the action with their passkey."
                                  ELSE "User cancelled the action."]
         IN  /\ challenges' = [challenges EXCEPT ![c] =
                                Append(@, [call |-> call.id, client |-> c,
                                           result |-> isVerified])]
             /\ IF isVerified
                THEN /\ h' = [h EXCEPT ![c].pc = "dispatch", ![c].isVerified = TRUE]
                     /\ UNCHANGED <<messages, toModel, done>>
                ELSE /\ done' = [done EXCEPT ![c] = Append(@, Outcome(c, call, "cancelled", FALSE,
                                                                    part.message))]
                     /\ h' = [h EXCEPT ![c].pc = "loop", ![c].calls = Tail(@),
                                       ![c].parts = IF h[c].mode = "text"
                                                    THEN PushCancelled(@, part) ELSE @]
                     /\ messages' = IF h[c].mode = "text"
                                    THEN [messages EXCEPT ![c] =
                                            Append(@, Msg("system", "actionCancelled"))]
                                    ELSE messages
                     /\ toModel' = IF h[c].mode = "voice" /\ voice[c].on
                                   THEN [toModel EXCEPT ![c] = Append(@, <<part>>)]
                                   ELSE toModel

\* chat.sendMessage({ message: functionResponseParts }) resolves; the final
\* text is shown when it is not empty.
FinalSend(c) ==
    /\ h[c].pc = "final"
    /\ toModel' = [toModel EXCEPT ![c] = Append(@, h[c].parts)]
    /\ \E hasText \in BOOLEAN :
         messages' = IF hasText
                     THEN [messages EXCEPT ![c] = Append(@, Msg("ai", "text"))]
                     ELSE messages
    /\ h' = [h EXCEPT ![c] = Idle]
    /\ UNCHANGED <<store, currentUser, passkeys, modal, voice, nextCall,
                   invoked, challenges, done>>

\* --------------------------------------------------------------- voice mode
NoVoice == [on |-> FALSE, snap |-> Idle.snap]

\* startVoiceMode: the callbacks close over the currentUser of this render.
StartVoice(c) ==
    /\ h[c].pc = "idle"
    /\ ~voice[c].on
    /\ nextCall <= MaxCalls
    /\ voice' = [voice EXCEPT ![c] = [on |-> TRUE, snap |-> currentUser[c]]]
    /\ UNCHANGED <<store, currentUser, passkeys, modal, messages, h, nextCall, hist>>

\* stopVoiceMode: the session id moves on and the connection is closed.
StopVoice(c) ==
    /\ voice[c].on
    /\ voice' = [voice EXCEPT ![c] = NoVoice]
    /\ UNCHANGED <<store, currentUser, passkeys, modal, messages, h, nextCall, hist>>

\* onmessage with message.toolCall on the current session.
VoiceToolCall(c, CallSet) ==
    /\ voice[c].on
    /\ h[c].pc = "idle"
    /\ \E batch \in Batches(CallSet) :
         /\ nextCall + Len(batch) - 1 <= MaxCalls
         /\ h' = [h EXCEPT ![c] = [Idle EXCEPT !.pc = "loop", !.mode = "voice",
                                               !.snap = voice[c].snap,
                                               !.calls = Numbered(batch),
                                               !.batch = [i \in 1..Len(batch) |->
                                                            nextCall + i - 1]]]
         /\ nextCall' = nextCall + Len(batch)
    /\ UNCHANGED <<store, currentUser, passkeys, modal, voice, messages, hist>>

\* ---------------------------------------------------------- refreshUserData
\* loadUserAndData: the user document is read first, ...
RefreshUserData(c) ==
    /\ h[c].pc = "idle"
    /\ h' = [h EXCEPT ![c].pc = "refresh", ![c].loc = [userData |-> [balance |-> balance[c]]]]
    /\ UNCHANGED <<store, currentUser, passkeys, modal, voice, messages, nextCall, hist>>

\* ... then the cards and loans, and setCurrentUser replaces the cache.
LoadUserAndData(c) ==
    /\ h[c].pc = "refresh"
    /\ currentUser' = [currentUser EXCEPT ![c] =
                         [balance |-> h[c].loc.userData.balance,
                          cards |-> cards[c], loans |-> loans[c]]]
    /\ h' = [h EXCEPT ![c] = Idle]
    /\ UNCHANGED <<store, passkeys, modal, voice, messages, nextCall, hist>>

\* ---------------------------------------------------------------- ChatModal
\* The state and refs of the component.  starts lists the invocations of
\* startVoiceMode in the order they were made: sid the currentSessionId it
\* captured, pc the await it is at, and the media stream, the pair of audio
\* contexts and the provider connection it created.  audioSources holds the
\* sources in
\* audioSourcesRef, each with the time it was started at and its duration;
\* ending tells which kinds of source are out of the set with their ended
\* event still to come: "stopped" ones, and ones that still play because the
\* set was replaced under them.  now is the currentTime of the output audio
\* context.  sessionRef, mediaStreamRef and the two audio context refs hold
\* the index of the invocation that created the object they point to, 0 when
\* they are null.  fetching counts the getDocs of fetchUsers still in flight,
\* created the chat sessions created so far, and teardown lists the steps of
\* the last stopVoiceMode in the order they were made.
ClosedModal ==
    [isOpen |-> FALSE, language |-> "en", contacts |-> <<>>, contactsLoaded |-> FALSE,
     chat |-> NoChat, fetching |-> 0, created |-> 0,
     isVoiceMode |-> FALSE, voiceState |-> "idle", sessionId |-> 0, sessionRef |-> 0,
     mediaStreamRef |-> 0, inputAudioContextRef |-> 0, outputAudioContextRef |-> 0,
     audioWorkletNodeRef |-> FALSE, mediaStreamSourceRef |-> FALSE,
     nextStartTime |-> 0, audioSources |-> {}, ending |-> {}, now |-> 0,
     teardown |-> <<>>,
     liveInputTranscription |-> <<>>, liveOutputTranscription |-> <<>>,
     finalInputTranscription |-> <<>>, finalOutputTranscription |-> <<>>,
     starts |-> <<>>]

langNameMap(language) ==
    CASE language = "en" -> "English"
      [] language = "es" -> "Spanish"
      [] language = "th" -> "Thai"
      [] language = "tl" -> "Tagalog"

\* What createChatSession writes into the system instruction of the session;
\* id tells the session objects apart.
createChatSession(id, userFullName, contacts, language, userCards, userLoans) ==
    LET activeLoans == SelectSeq(userLoans, LAMBDA l : l.status = "Active")
    IN  [id |-> id, userFullName |-> userFullName, contacts |-> contacts,
         langName |-> langNameMap(language),
         cards |-> [i \in 1..Len(userCards) |-> slice4(userCards[i].cardNumber)],
         loans |-> [i \in 1..Len(activeLoans) |-> activeLoans[i].id]]

\* stopVoiceMode, in the order of its statements.
\* sessionId.current++; setIsVoiceMode(false); setVoiceState('idle')
invalidateSession(m) ==
    [m EXCEPT !.sessionId = @ + 1, !.isVoiceMode = FALSE, !.voiceState = "idle"]

\* sessionRef.current?.close(); sessionRef.current = null
closeSession(m) ==
    [m EXCEPT !.starts = [k \in 1..Len(@) |->
                            IF k = m.sessionRef THEN [@[k] EXCEPT !.conn = "closed"] ELSE @[k]],
              !.sessionRef = 0]

\* The worklet node and the stream source are disconnected and their refs
\* set to null.
disconnectNodes(m) ==
    [m EXCEPT !.audioWorkletNodeRef = FALSE, !.mediaStreamSourceRef = FALSE]

\* mediaStreamRef.current?.getTracks().forEach(track => track.stop())
stopTracks(m) ==
    [m EXCEPT !.starts = [k \in 1..Len(@) |->
                            [@[k] EXCEPT !.stream = IF k = m.mediaStreamRef
                                                    THEN "stopped" ELSE @]],
              !.mediaStreamRef = 0]

\* Both audio contexts are closed and their refs set to null.
closeContexts(m) ==
    [m EXCEPT !.starts = [k \in 1..Len(@) |->
                            [@[k] EXCEPT !.input = IF k = m.inputAudioContextRef
                                                   THEN "closed" ELSE @,
                                         !.output = IF k = m.outputAudioContextRef
                                                    THEN "closed" ELSE @]],
              !.inputAudioContextRef = 0, !.outputAudioContextRef = 0, !.now = 0]

\* The pending playback is left as it is.
keepPlayback(m) == m

\* nextStartTimeRef.current = 0; every pending source is stopped and the set
\* is cleared.
clearPlayback(m) ==
    [m EXCEPT !.nextStartTime = 0, !.audioSources = {},
              !.ending = IF m.audioSources = {} THEN @ ELSE @ \cup {"stopped"}]

resetTranscriptions(m) ==
    [m EXCEPT !.liveInputTranscription = <<>>, !.liveOutputTranscription = <<>>,
              !.finalInputTranscription = <<>>, !.finalOutputTranscription = <<>>]

\* The step is entered in the list of what this teardown has done.
Did(step, m) == [m EXCEPT !.teardown = Append(@, step)]

\* The connection is closed before the session id is invalidated.
stopVoiceModeCloseFirst(m) ==
    resetTranscriptions(
      Did("playback", clearPlayback(
      Did("contexts", closeContexts(
      Did("tracks", stopTracks(
      Did("nodes", disconnectNodes(
      Did("sessionId", invalidateSession(
      Did("session", closeSession([m EXCEPT !.teardown = <<>>])))))))))))))

stopVoiceMode(m) ==
    resetTranscriptions(
      Did("playback", clearPlayback(
      Did("contexts", closeContexts(
      Did("tracks", stopTracks(
      Did("nodes", disconnectNodes(
      Did("session", closeSession(
      Did("sessionId", invalidateSession([m EXCEPT !.teardown = <<>>])))))))))))))

\* The useEffect on [isOpen, currentUser]: fetchUsers up to its await, or
\* the reset of the contacts of a closed chat.
fetchUsers(m) ==
    IF m.isOpen
    THEN [m EXCEPT !.contactsLoaded = FALSE, !.fetching = @ + 1]
    ELSE [m EXCEPT !.contacts = <<>>, !.contactsLoaded = FALSE]

\* The useEffect on [isOpen, currentUser, language, contacts, contactsLoaded]
\* as the render r sees the state, applied to the state m the effects before
\* it have left: a chat session is created when there is none, and a closed
\* chat drops its session and stops voice mode.
CreatesChat(r) == r.isOpen /\ r.contactsLoaded /\ r.chat = NoChat

chatEffect(c, r, m) ==
    IF CreatesChat(r)
    THEN [m EXCEPT !.chat = createChatSession(m.created + 1, UserDoc(c).name, r.contacts,
                                              r.language, currentUser[c].cards,
                                              currentUser[c].loans),
                   !.created = @ + 1]
    ELSE IF ~r.isOpen
         THEN IF r.isVoiceMode THEN stopVoiceMode([m EXCEPT !.chat = NoChat])
                               ELSE [m EXCEPT !.chat = NoChat]
         ELSE m

\* A render in which isOpen or currentUser changed: both effects run, then
\* the chat effect again for what they changed.
runEffects(c, r) ==
    LET m1 == chatEffect(c, r, fetchUsers(r))
    IN  chatEffect(c, m1, m1)

\* The messages after the effects of render r: a new session starts from
\* the greeting.
messagesAfter(c, r) ==
    IF CreatesChat(r)
    THEN <<Msg("ai", "chatGreeting")>>
    ELSE messages[c]

\* The modal of a signed-in client, open, with its contacts fetched and its
\* chat session created.
OpenModal(c, cu) ==
    LET names == <<UserDoc(IF c = 1 THEN 2 ELSE 1).name, UserDoc(IF c = 3 THEN 2 ELSE 3).name>>
    IN  [ClosedModal EXCEPT !.isOpen = TRUE, !.contacts = names, !.contactsLoaded = TRUE,
                            !.created = 1,
                            !.chat = createChatSession(1, UserDoc(c).name, names, "en",
                                                       cu.cards, cu.loans)]

\* ------------------------------------------------------ ChatModal: the chat
\* onClose: the parent sets isOpen to false and the effects run.
CloseChat(c) ==
    /\ modal[c].isOpen
    /\ modal' = [modal EXCEPT ![c] = runEffects(c, [@ EXCEPT !.isOpen = FALSE])]
    /\ UNCHANGED <<store, currentUser, passkeys, voice, messages, h, nextCall, hist>>

\* The parent sets isOpen to true and the effects run.
OpenChat(c) ==
    LET r == [modal[c] EXCEPT !.isOpen = TRUE]
    IN  /\ ~modal[c].isOpen
        /\ modal[c].fetching < MaxFetches
        /\ modal[c].created < MaxChats
        /\ modal' = [modal EXCEPT ![c] = runEffects(c, r)]
        /\ messages' = [messages EXCEPT ![c] = messagesAfter(c, r)]
        /\ UNCHANGED <<store, currentUser, passkeys, voice, h, nextCall, hist>>

\* setCurrentUser gave the component a new currentUser object.
CurrentUserChanges(c) ==
    /\ modal[c].fetching < MaxFetches
    /\ modal[c].created < MaxChats
    /\ modal' = [modal EXCEPT ![c] = runEffects(c, @)]
    /\ messages' = [messages EXCEPT ![c] = messagesAfter(c, modal[c])]
    /\ UNCHANGED <<store, currentUser, passkeys, voice, h, nextCall, hist>>

\* The names the query of fetchUsers can return.
ContactLists == {<<"X9", "Carol">>, <<"X9", "Carol", "Dan">>}

\* getDocs of fetchUsers resolves: setContacts, setContactsLoaded(true), and
\* the chat effect runs for the new contacts.
FetchResolves(c) ==
    /\ modal[c].fetching > 0
    /\ modal[c].created < MaxChats
    /\ \E names \in ContactLists :
         LET r == [modal[c] EXCEPT !.fetching = @ - 1, !.contacts = names,
                                   !.contactsLoaded = TRUE]
         IN  /\ modal' = [modal EXCEPT ![c] = chatEffect(c, r, r)]
             /\ messages' = [messages EXCEPT ![c] = messagesAfter(c, r)]
    /\ UNCHANGED <<store, currentUser, passkeys, voice, h, nextCall, hist>>

\* The language of the translation context changes and the chat effect runs.
SetLanguage(c) ==
    /\ modal[c].created < MaxChats
    /\ \E language \in {"en", "es"} :
         LET r == [modal[c] EXCEPT !.language = language]
         IN  /\ language # modal[c].language
             /\ modal' = [modal EXCEPT ![c] = chatEffect(c, r, r)]
             /\ messages' = [messages EXCEPT ![c] = messagesAfter(c, r)]
    /\ UNCHANGED <<store, currentUser, passkeys, voice, h, nextCall, hist>>

\* ------------------------------------------------- ChatModal: voice sessions
\* One invocation of startVoiceMode: toast is the message its error paths
\* passed to showToast, "" when it has shown none.
NewStart(sid) ==
    [sid |-> sid, pc |-> "media", stream |-> "none", input |-> "none",
     output |-> "none", conn |-> "none", toast |-> ""]

\* showToast(t(message), 'error') of invocation k.
showToast(m, k, message) == [m EXCEPT !.starts[k].toast = message]

\* No session is ever taken for superseded.
NeverSuperseded(m, sid) == FALSE

\* sessionId.current !== currentSessionId
Superseded(m, sid) == m.sessionId # sid

\* startVoiceMode up to await getUserMedia.
startVoiceMode(m) ==
    LET m1 == stopVoiceMode(m)
    IN  [m1 EXCEPT !.starts = Append(@, NewStart(m1.sessionId))]

ModalStep(c, m) ==
    /\ modal' = [modal EXCEPT ![c] = m]
    /\ UNCHANGED <<store, currentUser, passkeys, voice, messages, h, nextCall, hist>>

\* The microphone button, disabled while a send is loading.
ToggleVoiceMode(c) ==
    /\ modal[c].isOpen
    /\ h[c].pc = "idle"
    /\ IF modal[c].isVoiceMode
       THEN ModalStep(c, stopVoiceMode(modal[c]))
       ELSE /\ Len(modal[c].starts) < MaxStarts
            /\ ModalStep(c, startVoiceMode(modal[c]))

\* The stop button of the voice overlay.
TapToStop(c) ==
    /\ modal[c].isOpen
    /\ modal[c].isVoiceMode
    /\ ModalStep(c, stopVoiceMode(modal[c]))

AwaitAt(c, k, pc) ==
    /\ k \in 1..Len(modal[c].starts)
    /\ modal[c].starts[k].pc = pc

\* getUserMedia resolves: a superseded invocation stops the tracks and
\* returns, the current one keeps the stream, enters voice mode and creates
\* the audio contexts; it goes on to await addModule.
GetUserMediaResolves(c, k) ==
    LET m == modal[c]
        s == m.starts[k]
    IN  /\ AwaitAt(c, k, "media")
        /\ ModalStep(c,
             IF Superseded(m, s.sid)
             THEN [m EXCEPT !.starts[k] = [s EXCEPT !.stream = "stopped", !.pc = "done"]]
             ELSE [m EXCEPT !.starts[k] = [s EXCEPT !.stream = "live", !.input = "open",
                                                    !.output = "open", !.pc = "module"],
                            !.mediaStreamRef = k, !.isVoiceMode = TRUE,
                            !.voiceState = "connecting",
                            !.inputAudioContextRef = k, !.outputAudioContextRef = k,
                            !.now = 0])

\* getUserMedia rejects: micAccessDenied is shown.
GetUserMediaRejects(c, k) ==
    /\ AwaitAt(c, k, "media")
    /\ ModalStep(c, showToast([modal[c] EXCEPT !.starts[k].pc = "done"],
                               k, "micAccessDenied"))

\* addModule resolves: the playback clock is set to 0, audioSourcesRef gets
\* a new empty set, whose sources nothing stops, and ai.live.connect is
\* called.
AddModuleResolves(c, k) ==
    /\ AwaitAt(c, k, "module")
    /\ ModalStep(c, [modal[c] EXCEPT !.starts[k].pc = "connect",
                                     !.starts[k].conn = "connecting",
                                     !.nextStartTime = 0, !.audioSources = {},
                                     !.ending = IF modal[c].audioSources = {}
                                                THEN @ ELSE @ \cup {"playing"}])

\* addModule rejects: voiceError is shown and stopVoiceMode is called.
AddModuleRejects(c, k) ==
    /\ AwaitAt(c, k, "module")
    /\ ModalStep(c, stopVoiceMode(showToast([modal[c] EXCEPT !.starts[k].pc = "done"],
                                             k, "voiceError")))

\* The onopen callback of invocation k.
onopen(m, k) ==
    IF Superseded(m, m.starts[k].sid)
    THEN m
    ELSE IF m.inputAudioContextRef = 0 \/ m.mediaStreamRef = 0
         THEN [m EXCEPT !.voiceState = "listening"]
         ELSE [m EXCEPT !.voiceState = "listening",
                        !.mediaStreamSourceRef = TRUE, !.audioWorkletNodeRef = TRUE]

\* The connection is established: onopen is called and ai.live.connect
\* resolves; a superseded invocation closes the new session, the current
\* one stores it in sessionRef.
ConnectResolves(c, k) ==
    LET m == onopen(modal[c], k)
    IN  /\ AwaitAt(c, k, "connect")
        /\ ModalStep(c,
             IF Superseded(m, m.starts[k].sid)
             THEN [m EXCEPT !.starts[k].conn = "closed", !.starts[k].pc = "done"]
             ELSE [m EXCEPT !.starts[k].conn = "open", !.starts[k].pc = "done",
                            !.sessionRef = k])

\* ai.live.connect rejects: voiceError is shown and stopVoiceMode is called.
ConnectRejects(c, k) ==
    /\ AwaitAt(c, k, "connect")
    /\ ModalStep(c, stopVoiceMode(showToast([modal[c] EXCEPT !.starts[k].conn = "failed",
                                                             !.starts[k].pc = "done"],
                                             k, "voiceError")))

Connected(c, k) ==
    /\ k \in 1..Len(modal[c].starts)
    /\ modal[c].starts[k].conn = "open"

\* onerror on an open connection.
OnError(c, k) ==
    /\ Connected(c, k)
    /\ ModalStep(c, IF Superseded(modal[c], modal[c].starts[k].sid)
                    THEN modal[c]
                    ELSE stopVoiceMode(showToast(modal[c], k, "voiceError")))

\* The provider closes the connection: onclose.
OnClose(c, k) ==
    LET m == [modal[c] EXCEPT !.starts[k].conn = "closed"]
    IN  /\ Connected(c, k)
        /\ ModalStep(c, IF Superseded(m, m.starts[k].sid) THEN m ELSE stopVoiceMode(m))

\* prev + text, for the transcriptions: a text is a sequence of characters,
\* "a" for one that is not white space and " " for one that is.
AddText(prev, text) == prev \o text

\* The texts of the transcriptions the provider sends.
Chunks == {<<"a">>, <<" ">>}

\* onmessage with a transcription of the input or of the output, its text one
\* of Texts.
OnTranscription(c, k, Texts) ==
    /\ Connected(c, k)
    /\ ~Superseded(modal[c], modal[c].starts[k].sid)
    /\ Len(modal[c].finalInputTranscription)
         + Len(modal[c].finalOutputTranscription) < MaxText
    /\ \E text \in Texts :
         \/ ModalStep(c, [modal[c] EXCEPT
                !.liveInputTranscription = AddText(@, text),
                !.finalInputTranscription = AddText(@, text)])
         \/ ModalStep(c, [modal[c] EXCEPT
                !.liveOutputTranscription = AddText(@, text),
                !.finalOutputTranscription = AddText(@, text)])

\* String.prototype.trim: the white space at both ends is dropped.
trim(t) ==
    LET inked == {i \in 1..Len(t) : t[i] # " "}
    IN  IF inked = {} THEN <<>>
        ELSE SubSeq(t, CHOOSE i \in inked : \A j \in inked : i <= j,
                       CHOOSE i \in inked : \A j \in inked : i >= j)

\* The message of one speaker at the end of a turn, if its text is not blank.
TurnMessage(sender, full) ==
    IF trim(full) # <<>> THEN <<Msg(sender, trim(full))>> ELSE <<>>

\* The two messages of a turn, in the order they are appended.
AssistantFirst(fullInput, fullOutput) ==
    TurnMessage("ai", fullOutput) \o TurnMessage("user", fullInput)

TurnMessages(fullInput, fullOutput) ==
    TurnMessage("user", fullInput) \o TurnMessage("ai", fullOutput)

\* onmessage with turnComplete: the two transcripts become messages and the
\* running buffers are emptied.
OnTurnComplete(c, k) ==
    /\ Connected(c, k)
    /\ ~Superseded(modal[c], modal[c].starts[k].sid)
    /\ Len(messages[c]) < MaxMessages
    /\ messages' = [messages EXCEPT ![c] =
           @ \o TurnMessages(modal[c].finalInputTranscription,
                             modal[c].finalOutputTranscription)]
    /\ modal' = [modal EXCEPT ![c] = resetTranscriptions(modal[c])]
    /\ UNCHANGED <<store, currentUser, passkeys, voice, h, nextCall, hist>>

\* The durations of the audio frames the provider sends.
Durations == {1, 2}

\* The source is started at the currentTime of the context.
StartNow(nextStartTime, currentTime) == currentTime

\* nextStartTimeRef.current = Math.max(nextStartTimeRef.current, currentTime)
StartTime(nextStartTime, currentTime) == Max(nextStartTime, currentTime)

\* onmessage with audio.  decodeAudioData has no await of its own, so the
\* callback runs to its end before any other event is handled: the voice
\* state is speaking, the clock is moved up to the currentTime of the
\* context, the source is started at the clock, the clock advances by the
\* duration and the source joins the set.
OnAudio(c, k) ==
    /\ Connected(c, k)
    /\ ~Superseded(modal[c], modal[c].starts[k].sid)
    /\ modal[c].outputAudioContextRef # 0
    /\ Cardinality(modal[c].audioSources) < MaxSources
    /\ \E duration \in Durations :
         LET start == StartTime(modal[c].nextStartTime, modal[c].now)
         IN  /\ start + duration <= MaxTime
             /\ ModalStep(c, [modal[c] EXCEPT
                                !.voiceState = "speaking",
                                !.nextStartTime = start + duration,
                                !.audioSources = @ \cup {[start |-> start,
                                                          duration |-> duration]}])

\* onmessage with interrupted: the pending sources are stopped, the set is
\* cleared and the playback clock is set to 0.
OnInterrupted(c, k) ==
    /\ Connected(c, k)
    /\ ~Superseded(modal[c], modal[c].starts[k].sid)
    /\ ModalStep(c, clearPlayback(modal[c]))

\* onmessage with a toolCall naming getAccountBalance: the voice state is
\* processing, handleFunctionCall returns without an await of its own and
\* the result is sent with sendToolResponse.
OnToolCall(c, k) ==
    /\ Connected(c, k)
    /\ ~Superseded(modal[c], modal[c].starts[k].sid)
    /\ nextCall <= MaxCalls
    /\ modal' = [modal EXCEPT ![c].voiceState = "processing"]
    /\ toModel' = IF modal[c].sessionRef # 0
                  THEN [toModel EXCEPT ![c] =
                          Append(@, <<[call |-> nextCall, name |-> "getAccountBalance",
                                       success |-> TRUE,
                                       message |-> "Here's your balance summary."]>>)]
                  ELSE toModel
    /\ nextCall' = nextCall + 1
    /\ UNCHANGED <<store, currentUser, passkeys, voice, messages, h,
                   invoked, challenges, done>>

\* The source that was started first.
Earliest(sources) == CHOOSE s \in sources : \A t \in sources : s.start <= t.start

\* A source has played to its end: it leaves the set, and the last one to
\* leave sets the voice state to listening.
SourceEnded(c) ==
    /\ modal[c].audioSources # {}
    /\ LET s == Earliest(modal[c].audioSources)
       IN  ModalStep(c, [modal[c] EXCEPT
                          !.audioSources = @ \ {s},
                          !.now = Max(@, s.start + s.duration),
                          !.voiceState = IF modal[c].audioSources = {s}
                                         THEN "listening" ELSE @])

\* The ended event of a source that is no longer in the set.
StoppedSourceEnded(c) ==
    /\ \E e \in modal[c].ending :
         ModalStep(c, [modal[c] EXCEPT !.ending = @ \ {e},
                                       !.voiceState = IF modal[c].audioSources = {}
                                                      THEN "listening" ELSE @])

\* Time passes on the output audio context.
Tick(c) ==
    /\ modal[c].outputAudioContextRef # 0
    /\ modal[c].now < MaxTime
    /\ ModalStep(c, [modal[c] EXCEPT !.now = @ + 1])

\* ------------------------------------------------------------ initial state
\* registerUser gives every user one card from generateMockCard.
FirstCard == [cardNumber |-> <<"4000", "1111">>, creditBalance |-> 1,
              statementBalance |-> 1, minimumPayment |-> 1, paymentDueDate |-> 45]

\* An approved loan of 2 on which nothing has been paid yet.
FirstLoan(u) == [id |-> LoanIds[u][1], loanAmount |-> 2, remainingBalance |-> 2,
                 monthlyPayment |-> 1, status |-> "Active", paymentDueDate |-> 30]

\* Signed-in clients right after loadUserAndData: the cache equals the store.
InitWith(bal, ln, pk) ==
    /\ balance = bal
    /\ cards = [u \in Users |-> <<FirstCard>>]
    /\ loans = ln
    /\ ledger = <<>>
    /\ currentUser = [u \in Users |->
                        [balance |-> bal[u], cards |-> <<FirstCard>>, loans |-> ln[u]]]
    /\ passkeys \in pk
    /\ voice = [u \in Users |-> NoVoice]
    /\ modal = [u \in Users |->
                 OpenModal(u, [balance |-> bal[u], cards |-> <<FirstCard>>, loans |-> ln[u]])]
    /\ messages = [u \in Users |-> <<Msg("ai", "chatGreeting")>>]
    /\ h = [u \in Users |-> Idle]
    /\ nextCall = 1
    /\ invoked = [u \in Users |-> <<>>]
    /\ challenges = [u \in Users |-> <<>>]
    /\ toModel = [u \in Users |-> <<>>]
    /\ done = [u \in Users |-> <<>>]

\* The account operations, whichever call started them.
Operation(c) ==
    \/ CallInitiatePayment(c) \/ TmQuery(c) \/ TmTxn(c) \/ TmAddDebit(c) \/ TmAddCredit(c)
    \/ CallMakeAccountPayment(c) \/ MpTxn(c)
    \/ CallRequestPaymentExtension(c) \/ RpUpdate(c)
    \/ CallApplyForCreditCard(c) \/ AcSet(c)
    \/ CallApplyForLoan(c) \/ AlTxn(c) \/ AlSet(c)
    \/ CallReadOnly(c)

\* ---------------------------------------------- Spec: every tool, one client
\* One call of every tool the provider can name, in text and in voice mode.
ToolCalls ==
    { MkCall("initiatePayment", [NoArgs EXCEPT !.recipientName = "Carol", !.amount = 1]),
      MkCall("makeAccountPayment", [NoArgs EXCEPT !.accountId = "1111", !.accountType = "card",
                                                  !.paymentType = "full"]),
      MkCall("requestPaymentExtension", [NoArgs EXCEPT !.accountId = "loan-1-1",
                                                       !.accountType = "loan"]),
      MkCall("applyForCreditCard", NoArgs),
      MkCall("applyForLoan", [NoArgs EXCEPT !.loanAmount = 1]),
      MkCall("getAccountBalance", NoArgs) }

Init ==
    InitWith([u \in Users |-> IF u = 1 THEN 2 ELSE 0],
             [u \in Users |-> IF u = 1 THEN <<FirstLoan(u)>> ELSE <<>>],
             {[u \in Users |-> IF u = 1 THEN n ELSE 0] : n \in {0, 1}})

Next ==
    \/ HandleSend(1) \/ ProviderText(1) \/ ProviderFails(1) \/ ProviderCalls(1, ToolCalls)
    \/ StartVoice(1) \/ StopVoice(1) \/ VoiceToolCall(1, ToolCalls)
    \/ Loop(1) \/ VerifyReturns(1) \/ FinalSend(1)
    \/ Operation(1)

Spec == Init /\ [][Next]_vars

\* ------------------------------------- SpecTransfer: two clients, transfers
\* Alice and the user named "X9" are signed in on two devices, both have a
\* passkey, and both are told to send money to Carol.
TransferCalls ==
    { MkCall("initiatePayment", [NoArgs EXCEPT !.recipientName = "Carol", !.amount = 1,
                                               !.hasAmount = TRUE]) }

InitialBalance == [u \in Users |-> IF u = 3 THEN 0 ELSE 2]

InitTransfer ==
    InitWith(InitialBalance, [u \in Users |-> <<>>],
             {[u \in Users |-> IF u = 3 THEN 0 ELSE 1]})

Transfer(c) ==
    \/ CallInitiatePayment(c) \/ TmQuery(c) \/ TmTxn(c) \/ TmAddDebit(c) \/ TmAddCredit(c)

NextTransfer ==
    \E c \in {1, 2} :
        \/ HandleSend(c) \/ ProviderCalls(c, TransferCalls)
        \/ Loop(c) \/ VerifyReturns(c) \/ FinalSend(c)
        \/ Transfer(c)

SpecTransfer == InitTransfer /\ [][NextTransfer]_vars

\* ---------------------------- SpecResolve: one client, every kind of transfer
\* Alice, with a passkey and a balance of MaxAmount, and a provider that
\* names the recipient in every way the tool declaration allows and asks
\* for amounts from below zero to above the balance.
To(field, value) ==
    MkCall("initiatePayment", [NoArgs EXCEPT ![field] = value, !.amount = 1,
                                             !.hasAmount = TRUE])

ResolveCalls ==
    { To("recipientName", "Carol"), To("recipientName", "Nobody"),
      To("recipientName", "BOB"),
      To("recipientAccountNumber", "X9"), To("recipientAccountNumber", "A1"),
      MkCall("initiatePayment", [NoArgs EXCEPT !.recipientAccountNumber = "A2",
                                               !.recipientName = "Carol",
                                               !.amount = 1, !.hasAmount = TRUE]),
      MkCall("initiatePayment", [NoArgs EXCEPT !.amount = 1, !.hasAmount = TRUE]) }

AmountCalls ==
    { MkCall("initiatePayment", [NoArgs EXCEPT !.recipientName = "Carol", !.amount = a,
                                               !.hasAmount = TRUE])
      : a \in {0 - 1, 0, MaxAmount, MaxAmount + 1} }

InitResolve ==
    InitWith([u \in Users |-> IF u = 1 THEN MaxAmount ELSE 0], [u \in Users |-> <<>>],
             {[u \in Users |-> IF u = 1 THEN 1 ELSE 0]})

NextResolve ==
    \/ HandleSend(1) \/ ProviderCalls(1, ResolveCalls \cup AmountCalls)
    \/ Loop(1) \/ VerifyReturns(1) \/ FinalSend(1)
    \/ Transfer(1)

SpecResolve == InitResolve /\ [][NextResolve]_vars

\* ------------------------------------ SpecPay: one client, account payments
\* Alice with a passkey, a savings balance of MaxAmount + 1, her first card
\* (1 owed) and a loan (2 owed), and a provider that asks for payments with
\* custom amounts that are missing, negative, zero or up to MaxAmount, also
\* on a card she does not have.
Pay(accountId, accountType, paymentType) ==
    MkCall("makeAccountPayment", [NoArgs EXCEPT !.accountId = accountId,
                                                !.accountType = accountType,
                                                !.paymentType = paymentType])

WithAmount(call, a) == [call EXCEPT !.args.amount = a, !.args.hasAmount = TRUE]

PayCalls ==
    { Pay("1111", "card", "full"), Pay("1111", "card", "custom"),
      Pay("loan-1-1", "loan", "minimum") }
      \cup { WithAmount(Pay("1111", "card", "custom"), a) : a \in {0 - 1, MaxAmount} }
      \cup { WithAmount(Pay("loan-1-1", "loan", "custom"), a) : a \in {0, 1} }
      \cup { WithAmount(Pay("1234", "card", "custom"), 0 - 1) }

InitPay ==
    InitWith([u \in Users |-> IF u = 1 THEN MaxAmount + 1 ELSE 0],
             [u \in Users |-> IF u = 1 THEN <<FirstLoan(u)>> ELSE <<>>],
             {[u \in Users |-> IF u = 1 THEN 1 ELSE 0]})

NextPay ==
    \/ HandleSend(1) \/ ProviderCalls(1, PayCalls)
    \/ Loop(1) \/ VerifyReturns(1) \/ FinalSend(1)
    \/ CallMakeAccountPayment(1) \/ MpTxn(1)
    \/ RefreshUserData(1) \/ LoadUserAndData(1)

SpecPay == InitPay /\ [][NextPay]_vars

\* ================================================================ properties
\* --------------------------------------- SpecRead: the calls outside the gate
\* The tools that are not sensitive, with and without a card the user has,
\* a name no branch handles, and one sensitive tool.
ReadCalls ==
    { MkCall("getCardStatementDetails", NoArgs),
      MkCall("getCardStatementDetails", [NoArgs EXCEPT !.cardLast4 = "9999"]),
      MkCall("getCardTransactions", [NoArgs EXCEPT !.cardLast4 = "1111"]),
      MkCall("getAccountBalance", NoArgs),
      MkCall("getAccountTransactions", NoArgs),
      MkCall("getSpendingAnalysis", NoArgs),
      MkCall("closeAccount", NoArgs),
      MkCall("requestPaymentExtension", [NoArgs EXCEPT !.accountId = "1111",
                                                       !.accountType = "card"]) }

InitRead ==
    InitWith([u \in Users |-> 1], [u \in Users |-> <<>>], {[u \in Users |-> 1]})

NextRead ==
    \/ HandleSend(1) \/ ProviderText(1) \/ ProviderFails(1)
    \/ ProviderCalls(1, ReadCalls) \/ Loop(1) \/ VerifyReturns(1)
    \/ CallReadOnly(1) \/ InsightsReturn(1)
    \/ CallRequestPaymentExtension(1) \/ RpUpdate(1)
    \/ FinalSend(1)

SpecRead == InitRead /\ [][NextRead]_vars

\* ------------------------------------ SpecBatch: a loan and then a transfer
\* One client with an empty savings account is told, in text or in voice
\* mode, to apply for a loan and to send money to Carol, in one turn or in
\* two.
BatchCalls ==
    { MkCall("applyForLoan", [NoArgs EXCEPT !.loanAmount = 1]),
      MkCall("initiatePayment", [NoArgs EXCEPT !.recipientName = "Carol", !.amount = 1,
                                               !.hasAmount = TRUE]) }

InitBatch ==
    InitWith([u \in Users |-> 0], [u \in Users |-> <<>>], {[u \in Users |-> 1]})

NextBatch ==
    \/ HandleSend(1) \/ ProviderCalls(1, BatchCalls)
    \/ StartVoice(1) \/ StopVoice(1) \/ VoiceToolCall(1, BatchCalls)
    \/ Loop(1) \/ VerifyReturns(1) \/ FinalSend(1)
    \/ CallApplyForLoan(1) \/ AlTxn(1) \/ AlSet(1)
    \/ Transfer(1)

SpecBatch == InitBatch /\ [][NextBatch]_vars

\* ------------------------------------------ SpecVoice: the voice sessions
\* One client starts and stops voice mode and opens and closes the chat
\* while the microphone, the worklet module and the provider answer, or
\* fail, in any order.
InitVoice ==
    InitWith([u \in Users |-> 0], [u \in Users |-> <<>>], {[u \in Users |-> 1]})

Lifecycle(c) ==
    \/ ToggleVoiceMode(c) \/ TapToStop(c)
    \/ \E k \in 1..MaxStarts :
         \/ GetUserMediaResolves(c, k) \/ GetUserMediaRejects(c, k)
         \/ AddModuleResolves(c, k) \/ AddModuleRejects(c, k)
         \/ ConnectResolves(c, k) \/ ConnectRejects(c, k)
         \/ OnError(c, k) \/ OnClose(c, k)

NextVoice ==
    \/ Lifecycle(1)
    \/ CloseChat(1) \/ OpenChat(1) \/ FetchResolves(1)

SpecVoice == InitVoice /\ [][NextVoice]_vars

\* --------------------------------------------- SpecStop: stopping a session
\* The same in an open chat, with the provider sending transcriptions and
\* audio to the session.
NextStop ==
    \/ Lifecycle(1)
    \/ \E k \in 1..MaxStarts :
         \/ OnTranscription(1, k, {<<"a">>})
         \/ OnAudio(1, k) \/ OnInterrupted(1, k)
    \/ SourceEnded(1) \/ StoppedSourceEnded(1)

SpecStop == InitVoice /\ [][NextStop]_vars

\* ------------------------------------------------ SpecTurn: the transcripts
\* A session whose provider sends transcriptions, blank ones too, and ends
\* turns.
NextTurn ==
    \/ ToggleVoiceMode(1)
    \/ \E k \in 1..MaxStarts :
         \/ GetUserMediaResolves(1, k) \/ AddModuleResolves(1, k)
         \/ ConnectResolves(1, k)
         \/ OnTranscription(1, k, Chunks)
         \/ OnTurnComplete(1, k)

SpecTurn == InitVoice /\ [][NextTurn]_vars

\* --------------------------------------- SpecFunds: the savings balances
\* Loan applications for any principal the provider can name, with a
\* transfer and a card payment, by a client whose savings start empty.
FundsCalls ==
    { MkCall("applyForLoan", [NoArgs EXCEPT !.loanAmount = a]) : a \in {0 - 1, 1} }
      \cup { MkCall("initiatePayment", [NoArgs EXCEPT !.recipientName = "Carol",
                                                      !.amount = 1, !.hasAmount = TRUE]),
             MkCall("makeAccountPayment", [NoArgs EXCEPT !.accountId = "1111",
                                                         !.accountType = "card",
                                                         !.paymentType = "full"]) }

NextFunds ==
    \/ HandleSend(1) \/ ProviderCalls(1, FundsCalls)
    \/ Loop(1) \/ VerifyReturns(1) \/ FinalSend(1)
    \/ CallApplyForLoan(1) \/ AlTxn(1) \/ AlSet(1)
    \/ Transfer(1)
    \/ CallMakeAccountPayment(1) \/ MpTxn(1)

SpecFunds == InitBatch /\ [][NextFunds]_vars

\* ------------------------------------------- SpecLoan: paying a loan off
\* Payments of the full balance and of the monthly payment on one loan.
NextLoan ==
    \/ HandleSend(1) \/ ProviderCalls(1, { Pay(FirstLoan(1).id, "loan", "full"),
                                          Pay(FirstLoan(1).id, "loan", "minimum") })
    \/ Loop(1) \/ VerifyReturns(1) \/ FinalSend(1)
    \/ CallMakeAccountPayment(1) \/ MpTxn(1)
    \/ RefreshUserData(1) \/ LoadUserAndData(1)

SpecLoan == InitPay /\ [][NextLoan]_vars

\* ----------------------------------------- SpecMode: text and voice modes
\* The form under the voice overlay: it is covered while isVoiceMode is set.
SubmitForm(c) ==
    /\ modal[c].isOpen
    /\ ~modal[c].isVoiceMode
    /\ HandleSend(c)

\* Text sends and the voice lifecycle in one open chat.
NextMode ==
    \/ Lifecycle(1)
    \/ SubmitForm(1) \/ ProviderText(1) \/ ProviderFails(1)

SpecMode == InitVoice /\ [][NextMode]_vars

\* ------------------------------------------------- SpecPlay: the playback
\* The same with time passing on the audio context and with tool calls.
NextPlay ==
    \/ Lifecycle(1)
    \/ \E k \in 1..MaxStarts :
         \/ OnAudio(1, k) \/ OnInterrupted(1, k) \/ OnToolCall(1, k)
    \/ SourceEnded(1) \/ StoppedSourceEnded(1) \/ Tick(1)

SpecPlay == InitVoice /\ [][NextPlay]_vars

\* ------------------------------------------------ SpecChat: the chat session
\* One client sends text while the chat is closed and opened again, the
\* contacts are fetched again and the language changes.
InitChat ==
    InitWith([u \in Users |-> 0], [u \in Users |-> <<>>], {[u \in Users |-> 1]})

NextChat ==
    \/ HandleSend(1) \/ ProviderText(1) \/ ProviderFails(1)
    \/ CloseChat(1) \/ OpenChat(1) \/ FetchResolves(1)
    \/ CurrentUserChanges(1) \/ SetLanguage(1)

SpecChat == InitChat /\ [][NextChat]_vars

\* The parts of a sequence of messages, in order.
RECURSIVE Flat(_)
Flat(ms) == IF ms = <<>> THEN <<>> ELSE Head(ms) \o Flat(Tail(ms))

\* The histories of all clients, one client after the other.
Invoked    == invoked[1] \o invoked[2] \o invoked[3]
Challenges == challenges[1] \o challenges[2] \o challenges[3]
ToModel    == Flat(toModel[1]) \o Flat(toModel[2]) \o Flat(toModel[3])
Done       == done[1] \o done[2] \o done[3]

\* The operations the specification calls sensitive.
SensitiveActionSet ==
    {"initiatePayment", "makeAccountPayment", "applyForCreditCard",
     "applyForLoan", "requestPaymentExtension"}

ChallengesOf(id) == {j \in 1..Len(Challenges) : Challenges[j].call = id}

\* C1 Verify-before-execute: an account operation (transferMoney,
\* makeAccountPayment, addCardToUser, addLoanToUser, requestPaymentExtension)
\* has been Invoked for a tool call, in text or in voice mode, only if
\* verifyCurrentUserWithPasskey returned true for that very call before.
C1_VerifyBeforeExecute ==
    \A i \in 1..Len(Invoked) :
        /\ Invoked[i].name \in SensitiveActionSet
        /\ \E j \in ChallengesOf(Invoked[i].call) : Challenges[j].result

\* Every sensitive operation has run behind the gate, in both modes.
C1_Witness ==
    /\ \E i \in 1..Len(Invoked) : Invoked[i].mode = "text"
    /\ \E i \in 1..Len(Invoked) : Invoked[i].mode = "voice"
    /\ \E i \in 1..Len(Invoked) : Invoked[i].op = "requestPaymentExtension"

ResultsOf(log, id) == {k \in 1..Len(log) : log[k].call = id}

\* Between the start of the call and its result no balance, card, loan or
\* ledger entry was written.
StoreUntouched(d) ==
    /\ d.balanceAfter = d.start.balance
    /\ d.cardsAfter = d.start.cards
    /\ d.loansAfter = d.start.loans
    /\ d.entries = 0

IsCancelledResult(r) ==
    /\ r.message \in {"User cancelled the action with their passkey.",
                      "User cancelled the action."}
    /\ r.success = FALSE

C5_FreshChallenge ==
    /\ \A i, j \in 1..Len(Challenges) :
           Challenges[i].call = Challenges[j].call => i = j
    /\ \A k \in 1..Len(Done) :
           Done[k].name \in SensitiveActionSet =>
               /\ Cardinality(ChallengesOf(Done[k].call)) = 1
               /\ \A j \in ChallengesOf(Done[k].call) :
                      Challenges[j].result <=> Done[k].kind # "cancelled"

\* Two sensitive calls of one client: the first verified and executed, the
\* second challenged again and declined.
C5_Witness ==
    \E i, j \in 1..Len(Challenges) :
        /\ i < j
        /\ Challenges[i].client = Challenges[j].client
        /\ Challenges[i].result
        /\ ~Challenges[j].result
        /\ \E k \in 1..Len(Invoked) : Invoked[k].call = Challenges[i].call

\* ------------------------------------------------------------ transfers
\* C3 Conservation: whatever transfers have run, in whatever interleaving,
\* the balances of all users add up to what they added up to at the start.
C3_Conservation ==
    SumOver(balance, Users) = SumOver(InitialBalance, Users)

\* Net amount the ledger records for user u: credits minus debits.
RECURSIVE LedgerNet(_, _)
LedgerNet(led, u) ==
    IF led = <<>> THEN 0
    ELSE LedgerNet(Tail(led), u)
         + (IF Head(led).uid # u THEN 0
            ELSE IF Head(led).type = "credit" THEN Head(led).amount
            ELSE 0 - Head(led).amount)

\* C4 The debit entry of the sender and the credit entry of the recipient
\* are written atomically with the balance movement: in every state the
\* entries come in pairs and every balance is its initial value plus what
\* the ledger records for its user.
C4_LedgerAtomic ==
    /\ Len(ledger) % 2 = 0
    /\ \A u \in Users : balance[u] = InitialBalance[u] + LedgerNet(ledger, u)

ClaimedRecipient(identifier) ==
    LET byPriority == Where("savingsAccountNumber", identifier)
                        \o Where("email", identifier)
                        \o Where("phone", identifier)
                        \o Where("name", identifier)
    IN  IF byPriority = <<>> THEN 0 ELSE byPriority[1]

\* C7 Whenever a transfer has credited a user and the identifier matches
\* some user on account number, email, phone or display name, the credited
\* user is the one matched by the earliest of these fields, in that order.
C7_ResolutionPriority ==
    \A k \in 1..Len(Done) :
        LET d == Done[k]
            identifier == RecipientIdentifier(d.args)
        IN  (d.name = "initiatePayment" /\ ClaimedRecipient(identifier) # 0)
            => \A u \in Users :
                   d.balanceAfter[u] > d.start.balance[u] => u = ClaimedRecipient(identifier)

\* --------------------------------------------------------- account payments
\* The account payments that were invoked and answered.
Payments == {k \in 1..Len(Done) : Done[k].name = "makeAccountPayment"
                                  /\ Done[k].kind # "cancelled"}

\* What the call took from the savings balance of its user.
Debited(d) == d.start.balance[d.client] - d.balanceAfter[d.client]

\* The card or loan the call names is known to the client.
AccountKnown(d) ==
    IF d.args.accountType = "card"
    THEN FindCard(d.snap.cards, d.args.accountId) # 0
    ELSE FindLoan(d.snap.loans, d.args.accountId) # 0

C9_PaidOff ==
    \A k \in Payments :
        LET d == Done[k]
        IN  (d.success /\ d.args.accountType = "loan")
            => \A i \in 1..Len(d.start.loans) :
                   ( /\ d.start.loans[i].id = d.args.accountId
                     /\ Debited(d) = d.start.loans[i].remainingBalance )
                   => /\ d.loansAfter[i].status = "Paid Off"
                      /\ d.loansAfter[i].remainingBalance = 0

\* C10 A successful payment never takes more from the savings balance than
\* the card or loan owed in the store before the call, and what is owed
\* never becomes negative.
C10_CappedAtOutstanding ==
    \A k \in Payments :
        LET d == Done[k]
        IN  d.success =>
              /\ \A i \in 1..Len(d.start.cards) :
                     (d.args.accountType = "card"
                      /\ slice4(d.start.cards[i].cardNumber) = d.args.accountId)
                     => /\ Debited(d) <= d.start.cards[i].creditBalance
                        /\ d.cardsAfter[i].creditBalance >= 0
              /\ \A i \in 1..Len(d.start.loans) :
                     (d.args.accountType = "loan" /\ d.start.loans[i].id = d.args.accountId)
                     => /\ Debited(d) <= d.start.loans[i].remainingBalance
                        /\ d.loansAfter[i].remainingBalance >= 0

\* ---------------------------------------------------------- loan approval
\* The loan applications that were invoked and answered.
LoanApplications == {k \in 1..Len(Done) : Done[k].name = "applyForLoan"
                                          /\ Done[k].kind # "cancelled"}

\* C11 An approved loan application has created one new Active loan whose
\* remaining balance is the requested principal, has raised the savings
\* balance by exactly the principal, and has recorded an income (credit)
\* ledger entry of the principal for the user; a rejected one has left the
\* balances, cards, loans and ledger as they were.
C11_LoanApproval ==
    \A k \in LoanApplications :
        LET d == Done[k]
            principal == d.args.loanAmount
            n == Len(d.loansAfter)
        IN  IF d.success
            THEN /\ n = Len(d.start.loans) + 1
                 /\ d.loansAfter[n].status = "Active"
                 /\ d.loansAfter[n].remainingBalance = principal
                 /\ d.balanceAfter[d.client] = d.start.balance[d.client] + principal
                 /\ \E i \in 1..Len(ledger) :
                        /\ ledger[i].uid = d.client
                        /\ ledger[i].type = "credit"
                        /\ ledger[i].amount = principal
                        /\ ledger[i].category = "Income"
            ELSE StoreUntouched(d)

\* ------------------------------------------------------ payment extensions
\* The extension requests that were invoked and answered.
Extensions == {k \in 1..Len(Done) : Done[k].name = "requestPaymentExtension"
                                    /\ Done[k].kind # "cancelled"}

\* C12 A successful extension has moved the stored due date of the card or
\* loan it names exactly ExtensionDays past the stored due date at the start
\* of the call; an extension that was rejected or found no account has left
\* the store as it was.
C12_ExtensionMovesDueDate ==
    \A k \in Extensions :
        LET d == Done[k]
        IN  IF d.success
            THEN /\ \A i \in 1..Len(d.start.cards) :
                        (d.args.accountType = "card"
                         /\ slice4(d.start.cards[i].cardNumber) = d.args.accountId)
                        => d.cardsAfter[i].paymentDueDate
                             = d.start.cards[i].paymentDueDate + ExtensionDays
                 /\ \A i \in 1..Len(d.start.loans) :
                        (d.args.accountType = "loan"
                         /\ d.start.loans[i].id = d.args.accountId)
                        => d.loansAfter[i].paymentDueDate
                             = d.start.loans[i].paymentDueDate + ExtensionDays
            ELSE StoreUntouched(d)


\* ------------------------------------------------- follow-up to the provider
Last(s) == s[Len(s)]

\* The record in done of client c for call id.
DoneOf(c, id) == CHOOSE d \in {done[c][k] : k \in 1..Len(done[c])} : d.call = id

FollowUpSent(c) == h[c].mode = "text" /\ toModel'[c] # toModel[c]

SendFails(c) == h[c].pc \in {"send", "final"} /\ h'[c].failed

\* C14 When the provider call of a text send fails, at the first message or
\* at the follow-up, the step appends exactly one chatError system message
\* to the message list, which is otherwise as it was before the failure,
\* and clears the loading flag; nothing is delivered to the provider and the
\* store is not touched.
C14_FailedSend ==
    [][\A c \in Users :
         SendFails(c) =>
             /\ messages'[c] = Append(messages[c], Msg("system", "chatError"))
             /\ h'[c].pc = "idle"
             /\ toModel' = toModel
             /\ store' = store
    ]_vars

\* A follow-up carrying the result of an operation was rejected: the send
\* ended with chatError as the last message and the handler idle, and the
\* provider was given nothing.
C14_Witness ==
    \E c \in Users :
        /\ h[c].pc = "idle" /\ h[c].failed
        /\ Last(messages[c]) = Msg("system", "chatError")
        /\ \E k \in 1..Len(done[c]) : done[c][k].kind = "ret"
        /\ \A k \in 1..Len(done[c]) : done[c][k].kind # "throw"
        /\ toModel[c] = <<>>


\* ----------------------------------------------------------- voice teardown
\* What stopVoiceMode leaves: not in voice mode, voice state idle, no
\* provider connection, no audio nodes, no media stream, no audio contexts,
\* no pending source, the playback clock at 0 and empty transcriptions.
Stopped(m) ==
    /\ ~m.isVoiceMode /\ m.voiceState = "idle" /\ m.sessionRef = 0
    /\ ~m.audioWorkletNodeRef /\ ~m.mediaStreamSourceRef
    /\ m.mediaStreamRef = 0
    /\ m.inputAudioContextRef = 0 /\ m.outputAudioContextRef = 0
    /\ m.audioSources = {} /\ m.nextStartTime = 0
    /\ m.liveInputTranscription = <<>> /\ m.liveOutputTranscription = <<>>
    /\ m.finalInputTranscription = <<>> /\ m.finalOutputTranscription = <<>>

\* The objects the invocations of startVoiceMode created, and their state; a
\* connection that failed to open counts as the pending one it was.
Resources(m) ==
    [k \in 1..Len(m.starts) |->
        [stream |-> m.starts[k].stream, input |-> m.starts[k].input,
         output |-> m.starts[k].output,
         conn |-> IF m.starts[k].conn = "failed" THEN "connecting" ELSE m.starts[k].conn]]

\* stopVoiceMode is called in this step (nothing else moves the session id).
StopCalled(c) == modal'[c].sessionId # modal[c].sessionId

\* C15 Every call of stopVoiceMode leaves the voice state idle with no
\* provider connection, audio nodes, media stream, audio contexts or pending
\* sources, the playback clock at 0 and the transcriptions empty; a call made
\* when the component is already in that state, after an earlier call or
\* before any session was started, changes none of this and touches none of
\* the objects created so far.
C15_StopIdempotent ==
    [][\A c \in Users :
         StopCalled(c) =>
             /\ Stopped(modal'[c])
             /\ Stopped(modal[c]) =>
                  \A k \in 1..Len(modal[c].starts) :
                      Resources(modal'[c])[k] = Resources(modal[c])[k]
    ]_vars

\* startVoiceMode was called twice before any microphone was granted: its
\* two calls of stopVoiceMode followed each other, the first one before any
\* session had been started.
C15_Witness ==
    /\ Len(modal[1].starts) = 2
    /\ \A k \in 1..2 : modal[1].starts[k].pc = "media"
    /\ modal[1].sessionId = 2
    /\ Stopped(modal[1])


\* ------------------------------------------------------- one voice session
OpenConnections(m) == {k \in 1..Len(m.starts) : m.starts[k].conn = "open"}

\* Every object of an invocation that is still live is the one the refs of
\* the component point to.
OnlyCurrentLive(m) ==
    \A k \in 1..Len(m.starts) :
        /\ m.starts[k].conn = "open" => m.sessionRef = k /\ m.starts[k].sid = m.sessionId
        /\ m.starts[k].stream = "live" => m.mediaStreamRef = k
        /\ m.starts[k].input = "open" => m.inputAudioContextRef = k
        /\ m.starts[k].output = "open" => m.outputAudioContextRef = k

\* startVoiceMode is called in this step.
StartCalled(c) == Len(modal'[c].starts) > Len(modal[c].starts)

\* C16 At most one provider connection is open at any time, it is the one of
\* the current session id and the one sessionRef holds, so that every
\* connection opened for a superseded session id is closed; and each call of
\* startVoiceMode has torn down whatever was there before it asks for the
\* microphone: no connection, stream or audio context is left live.
C16_OneVoiceSession ==
    /\ [](\A c \in Users : /\ Cardinality(OpenConnections(modal[c])) <= 1
                           /\ OnlyCurrentLive(modal[c]))
    /\ [][\A c \in Users :
            StartCalled(c) =>
                /\ Stopped(modal'[c])
                /\ \A k \in 1..Len(modal'[c].starts) :
                       /\ modal'[c].starts[k].conn # "open"
                       /\ modal'[c].starts[k].stream # "live"
                       /\ modal'[c].starts[k].input # "open"
                       /\ modal'[c].starts[k].output # "open"
       ]_vars

\* The connection of a superseded invocation has been closed while a later
\* invocation holds the open connection of the current session.
C16_Witness ==
    \E k1, k2 \in 1..Len(modal[1].starts) :
        /\ k1 < k2
        /\ modal[1].starts[k1].conn = "closed"
        /\ modal[1].starts[k1].stream = "stopped"
        /\ modal[1].starts[k2].conn = "open"
        /\ modal[1].sessionRef = k2
        /\ modal[1].isVoiceMode


\* ---------------------------------------------------- closing in voice mode
\* Nothing of a voice session is there: not in voice mode, no connection
\* open or being opened, no live microphone, no open audio context, nothing
\* playing.
Released(m) ==
    /\ ~m.isVoiceMode /\ m.sessionRef = 0 /\ m.audioSources = {}
    /\ \A k \in 1..Len(m.starts) :
           /\ m.starts[k].conn # "open"
           /\ m.starts[k].stream # "live"
           /\ m.starts[k].input # "open" /\ m.starts[k].output # "open"

\* C17 While the chat is closed there is no voice session, whether it was
\* active or still being started when the chat was closed: voice mode is off,
\* no provider connection is open, the microphone is not live, the audio
\* contexts are closed and nothing is pending for playback.
C17_ClosedChatHasNoVoice ==
    \A c \in Users : ~modal[c].isOpen => Released(modal[c])


\* ------------------------------------------ closing while a send is in flight
\* The chat session the running handleSend of client c was started on is no
\* longer the session of the conversation: the chat was closed, or closed
\* and opened again.
SendOutlivedChat(c) ==
    /\ h[c].pc # "idle" /\ h[c].mode = "text"
    /\ modal[c].chat # h[c].chat

\* C18 A handleSend whose chat was closed while its provider call was in
\* flight appends no message when the call returns, neither to the closed
\* conversation nor to one opened since.
C18_StaleSendDiscarded ==
    [][\A c \in Users :
         (SendOutlivedChat(c) /\ h'[c] # h[c]) => messages'[c] = messages[c]
    ]_vars


\* ------------------------------------------------- the chat session is current
\* C19 The chat session of an open chat was created from the user, the
\* language and the contact list the component has now.
C19_SessionIsCurrent ==
    \A c \in Users :
        (modal[c].isOpen /\ modal[c].chat # NoChat) =>
            /\ modal[c].chat.userFullName = UserDoc(c).name
            /\ modal[c].chat.langName = langNameMap(modal[c].language)
            /\ modal[c].chat.contacts = modal[c].contacts


\* ------------------------------------------------- calls outside the gate
\* C20 A tool call whose name is not in the sensitive set, whether one of
\* the five tools that read or a name no branch handles, has written no
\* balance, card, loan, due date or ledger entry.
C20_OnlySensitiveWrites ==
    \A k \in 1..Len(Done) :
        Done[k].name \notin sensitiveActions => StoreUntouched(Done[k])

\* A tool outside the sensitive set has been answered, and an extension,
\* which is in the set, has moved a due date.
C20_Witness ==
    /\ \E k \in 1..Len(Done) : Done[k].name \notin sensitiveActions /\ Done[k].kind = "ret"
    /\ \E k \in 1..Len(Done) :
           /\ Done[k].name = "requestPaymentExtension" /\ Done[k].success = TRUE
           /\ ~StoreUntouched(Done[k])


\* ------------------------------------------------------------- no retries
\* C21 No tool call has had its account operation invoked more than once,
\* whatever became of the call (verified, cancelled, failed, or followed by
\* a failure of the provider), and a cancelled call has had none.
C21_AtMostOneInvocation ==
    /\ \A i, j \in 1..Len(Invoked) : Invoked[i].call = Invoked[j].call => i = j
    /\ \A k \in 1..Len(Done) :
           Done[k].kind = "cancelled" =>
               ~\E i \in 1..Len(Invoked) : Invoked[i].call = Done[k].call

\* An operation was invoked and failed, another call of the same turn was
\* cancelled, and the follow-up to the provider was rejected: the handler is
\* idle again with one invocation on record.
C21_Witness ==
    /\ h[1].pc = "idle" /\ h[1].failed
    /\ Len(invoked[1]) = 1
    /\ \E k \in 1..Len(done[1]) : done[1][k].kind = "cancelled"
    /\ \E k \in 1..Len(done[1]) :
           /\ done[1][k].kind = "ret" /\ done[1][k].call = invoked[1][1].call
           /\ done[1][k].success = FALSE


\* ------------------------------------------------- failures of the bridge
\* Invocation k of startVoiceMode shows an error message in this step.
Fails(c, k) == modal[c].starts[k].toast = "" /\ modal'[c].starts[k].toast # ""

\* C22 A step in which the microphone is denied, the worklet module fails to
\* load, the connection to the provider fails or the current session gets
\* onerror shows one error message and leaves the bridge torn down: not in
\* voice mode, voice state idle, no connection, stream, nodes, contexts or
\* pending sources.
C22_FailureTearsDown ==
    [][\A c \in Users : \A k \in 1..Len(modal[c].starts) :
         Fails(c, k) =>
             /\ modal'[c].starts[k].toast \in {"micAccessDenied", "voiceError"}
             /\ \A j \in 1..Len(modal[c].starts) : j # k => ~Fails(c, j)
             /\ Stopped(modal'[c])
    ]_vars


\* ---------------------------------------------------------- the message list
IsPrefix(s, t) == Len(s) <= Len(t) /\ SubSeq(t, 1, Len(s)) = s

\* While the chat is open with its session, the list only grows at its end.
AppendOnly(c) ==
    (modal[c].isOpen /\ modal'[c].isOpen /\ modal[c].chat # NoChat)
        => IsPrefix(messages[c], messages'[c])

\* The chat that is opened again after a close shows nothing of the
\* conversation before: its list is empty or holds the greeting alone.
ClearedByClose(c) ==
    (~modal[c].isOpen /\ modal'[c].isOpen)
        => messages'[c] \in {<<>>, <<Msg("ai", "chatGreeting")>>}

\* C23 The message list of an open conversation is append-only: no step
\* removes, reorders or edits a message; and closing the chat resets the
\* list, so that none of its messages is there when the chat opens again.
C23_MessagesAppendOnly ==
    [][\A c \in Users : AppendOnly(c) /\ ClearedByClose(c)]_vars


\* ----------------------------------------------------- one call at a time
\* The calls of client c that have a challenge or an invocation on record,
\* and those that have been answered.
Begun(c) ==
    {challenges[c][i].call : i \in 1..Len(challenges[c])}
        \cup {invoked[c][i].call : i \in 1..Len(invoked[c])}

Answered(c) == {done[c][i].call : i \in 1..Len(done[c])}

\* At most one call is in progress, it is the last one that was begun, and
\* each call found the store as the call before it had left it.
OneAtATime(c) ==
    /\ Cardinality(Begun(c) \ Answered(c)) <= 1
    /\ \A x \in Begun(c) \ Answered(c) : \A y \in Begun(c) : y <= x
    /\ \A k \in 1..(Len(done[c]) - 1) :
           done[c][k + 1].start.balance = done[c][k].balanceAfter

\* The answer of a transfer agrees with the stored balance the call found:
\* refused for insufficient funds only when the balance did not cover the
\* amount, and carried out only when it did.
SeesStoredBalance(c) ==
    \A k \in 1..Len(done[c]) :
        LET d == done[c][k]
        IN  d.name = "initiatePayment" /\ d.kind = "ret" =>
                /\ d.message \in {"Error: Insufficient funds.", "Insufficient funds."}
                       => d.start.balance[c] < d.args.amount
                /\ d.message = "Success! You sent money."
                       => d.start.balance[c] >= d.args.amount

\* C24 In text and in voice mode the calls of a batch are handled one at a
\* time: at most one call has begun and is not answered, no later call has
\* begun before it, and each call starts from the stored balance the call
\* before it left and is answered according to that balance.
C24_OneCallAtATime ==
    \A c \in Users : OneAtATime(c) /\ SeesStoredBalance(c)


\* ------------------------------------------------- superseded voice sessions
\* What the callbacks of a voice session act on.
SessionView(c) ==
    [voiceState |-> modal[c].voiceState, nextStartTime |-> modal[c].nextStartTime,
     audioSources |-> modal[c].audioSources,
     liveInput |-> modal[c].liveInputTranscription,
     liveOutput |-> modal[c].liveOutputTranscription,
     finalInput |-> modal[c].finalInputTranscription,
     finalOutput |-> modal[c].finalOutputTranscription,
     messages |-> messages[c]]

\* stopVoiceMode has run and no invocation of startVoiceMode is under way:
\* every session there was is superseded.
AllSuperseded(m) ==
    /\ Stopped(m)
    /\ \A k \in 1..Len(m.starts) : Superseded(m, m.starts[k].sid) \/ m.starts[k].pc = "done"

\* C25 The callbacks of a superseded voice session do nothing: once
\* stopVoiceMode has run, and until startVoiceMode is called again, no step
\* changes the voice state, the playback clock, the pending sources, the
\* transcription buffers or the message list.
C25_SupersededDoNothing ==
    [][\A c \in Users :
         (AllSuperseded(modal[c]) /\ ~StartCalled(c)) => SessionView(c)' = SessionView(c)
    ]_vars


\* ------------------------------------------------------------------ barge-in
\* The current session processes an interrupted signal in this step.
Interrupted(c) == \E k \in 1..Len(modal[c].starts) : OnInterrupted(c, k)

\* C26 The step that processes an interrupted signal leaves the pending set
\* empty and the playback clock at 0, with every source that was scheduled
\* or playing stopped: no source of a frame received before the signal is
\* left to play after it.
C26_BargeIn ==
    [][\A c \in Users :
         Interrupted(c) =>
             /\ modal'[c].audioSources = {}
             /\ modal'[c].nextStartTime = 0
             /\ modal[c].audioSources # {} => "stopped" \in modal'[c].ending
             /\ "playing" \notin modal'[c].ending
    ]_vars


\* ------------------------------------------------------------- voice state
\* A voice session is active: the component is in voice mode and holds the
\* provider connection.
ActiveSession(m) == m.isVoiceMode /\ m.sessionRef # 0

\* C27 In an active voice session the voice state is speaking whenever the
\* pending set is not empty, and a step takes it from speaking to listening
\* only if it leaves the pending set empty.
C27_SpeakingWhilePending ==
    /\ [](\A c \in Users :
            (ActiveSession(modal[c]) /\ modal[c].audioSources # {})
                => modal[c].voiceState = "speaking")
    /\ [][\A c \in Users :
            ( /\ ActiveSession(modal[c])
              /\ modal[c].voiceState = "speaking"
              /\ modal'[c].voiceState = "listening" )
                => modal'[c].audioSources = {}
       ]_vars


\* ------------------------------------------------------- the playback clock
End(s) == s.start + s.duration

\* The sources a step adds to the pending set.
Scheduled(c) == modal'[c].audioSources \ modal[c].audioSources

Transitions ==
    {<<"idle", "connecting">>, <<"connecting", "listening">>, <<"connecting", "idle">>}
        \cup ({"listening", "speaking", "processing"}
                \X {"listening", "speaking", "processing", "idle"})

\* C29 The voice state changes only along the transitions of the machine, it
\* leaves idle only for connecting, and it is listening, speaking or
\* processing only while the component is in voice mode.
C29_StateMachine ==
    /\ [](\A c \in Users :
            modal[c].voiceState \in {"listening", "speaking", "processing"}
                => modal[c].isVoiceMode)
    /\ [][\A c \in Users :
            modal'[c].voiceState # modal[c].voiceState
                => <<modal[c].voiceState, modal'[c].voiceState>> \in Transitions
       ]_vars


\* ------------------------------------------------------ the order of teardown
\* C30 A call of stopVoiceMode first invalidates the session id, then closes
\* the provider connection, then disconnects the audio nodes, then stops the
\* tracks of the media stream, then closes both audio contexts and last
\* clears the pending playback; it increments the session id and no step
\* decreases it.
C30_TeardownOrder ==
    [][\A c \in Users :
         /\ modal'[c].sessionId >= modal[c].sessionId
         /\ StopCalled(c) =>
                /\ modal'[c].sessionId = modal[c].sessionId + 1
                /\ modal'[c].teardown =
                       <<"sessionId", "session", "nodes", "tracks", "contexts", "playback">>
    ]_vars

\* A session that was connected and had a source pending has been torn
\* down: its connection is closed, its stream stopped, its contexts closed
\* and its source stopped.
C30_Witness ==
    /\ Stopped(modal[1])
    /\ modal[1].teardown # <<>>
    /\ "stopped" \in modal[1].ending
    /\ \E k \in 1..Len(modal[1].starts) :
           /\ modal[1].starts[k].conn = "closed"
           /\ modal[1].starts[k].stream = "stopped"
           /\ modal[1].starts[k].input = "closed"
           /\ modal[1].starts[k].output = "closed"


\* ------------------------------------------------------------------- C31
TurnCompleted(c) == \E k \in 1..MaxStarts : OnTurnComplete(c, k)

\* C31: on a turn-complete signal the finalized user transcript and then the
\* finalized assistant transcript are each appended as one message, the user's
\* before the assistant's and each only if it is not blank, nothing else is
\* appended, and the four running buffers are empty afterwards; between such
\* signals the messages are not touched by the transcriptions.
C31_TurnComplete ==
    [][/\ TurnCompleted(1) =>
            /\ messages'[1] =
                 messages[1]
                   \o (IF trim(modal[1].finalInputTranscription) # <<>>
                       THEN <<Msg("user", trim(modal[1].finalInputTranscription))>>
                       ELSE <<>>)
                   \o (IF trim(modal[1].finalOutputTranscription) # <<>>
                       THEN <<Msg("ai", trim(modal[1].finalOutputTranscription))>>
                       ELSE <<>>)
            /\ modal'[1].finalInputTranscription = <<>>
            /\ modal'[1].finalOutputTranscription = <<>>
            /\ modal'[1].liveInputTranscription = <<>>
            /\ modal'[1].liveOutputTranscription = <<>>
       /\ ~TurnCompleted(1) => messages'[1] = messages[1]]_vars

\* Two turns have been appended, the first one with a blank transcript of
\* the user left out.
C31_Witness ==
    /\ Len(messages[1]) = 4
    /\ messages[1][2].sender = "ai" /\ messages[1][3].sender = "user"
    /\ messages[1][4].sender = "ai"
    /\ modal[1].finalInputTranscription = <<>>
    /\ modal[1].finalOutputTranscription = <<>>

\* ------------------------------------------------------------------- C32
\* A text send starts: handleSend passes its guard.
SendStarts(c) == h[c].pc = "idle" /\ h'[c].pc # "idle"

\* C32: voice mode and text sends exclude each other: no text send starts or
\* is in progress while voice mode is on, and startVoiceMode is not called
\* while a text send is outstanding.
C32_VoiceExcludesText ==
    /\ [](~(modal[1].isVoiceMode /\ h[1].pc # "idle"))
    /\ [][SendStarts(1) => ~modal[1].isVoiceMode]_vars
    /\ [][StartCalled(1) => h[1].pc = "idle"]_vars

\* ------------------------------------------------------------------- C33
\* C33: while a handleSend is outstanding no step starts another one: no user
\* message is appended, the provider is not sent a new prompt and the state
\* of the outstanding send is not replaced by that of a new one.
C33_OneSendInFlight ==
    [][\A c \in Users :
         h[c].pc # "idle" =>
           /\ messages'[c] # Append(messages[c], Msg("user", "prompt"))
           /\ h'[c].pc = "send" => h[c].pc = "send" /\ h'[c] = h[c]]_vars

\* A send is outstanding with a tool call dispatched.
C33_Witness ==
    /\ h[1].pc # "idle"
    /\ h[1].pc \notin {"send", "final"}
    /\ Invoked # <<>>

\* ------------------------------------------------------------------- C34
\* The voice session a tool call was received by has been stopped while the
\* call is still being handled.
StoppedMidCall(c) == h[c].mode = "voice" /\ h[c].pc # "idle" /\ ~voice[c].on

\* C34: once stopVoiceMode has run, no account operation is invoked and no
\* stored account data is changed on behalf of a tool call the stopped voice
\* session had received.
C34_NoMutationAfterStop ==
    [][StoppedMidCall(1) => UNCHANGED <<store, invoked>>]_vars

\* ------------------------------------------------------------------- C35
\* C35: a failure in the start-up of a superseded invocation of
\* startVoiceMode, the worklet module or the connection rejecting after a
\* newer invocation has begun, does not run stopVoiceMode: the session id, the
\* voice mode flag and the connection, stream and contexts of the newer
\* session are left as they were.
C35_SupersededFailureHarmless ==
    [][\A k \in 1..Len(modal[1].starts) :
         (Fails(1, k) /\ Superseded(modal[1], modal[1].starts[k].sid)) =>
             /\ ~StopCalled(1)
             /\ modal'[1].isVoiceMode = modal[1].isVoiceMode
             /\ modal'[1].voiceState = modal[1].voiceState
             /\ Resources(modal'[1]) = Resources(modal[1])]_vars

\* ------------------------------------------------------------------- C36
\* The successful payments on the loan of client 1.
LoanPayments ==
    {k \in Payments : /\ Done[k].client = 1
                      /\ Done[k].args.accountType = "loan"
                      /\ Done[k].args.accountId = FirstLoan(1).id
                      /\ Done[k].success = TRUE}

\* C36: after any sequence of successful payments on one loan, the stored
\* remaining balance of the loan is its initial remaining balance less the
\* total these payments took from the savings balance of the user.
C36_LoanBalanceFollowsPayments ==
    loans[1][1].remainingBalance =
        FirstLoan(1).remainingBalance
          - SumOver([k \in LoanPayments |-> Debited(Done[k])], LoanPayments)

\* ------------------------------------------------------------------- C37
\* The stored state of a user, in the shape of the client's cache.
Stored(c) == [balance |-> balance[c], cards |-> cards[c], loans |-> loans[c]]

\* An account operation of client c returns success in this step.
OperationCompletes(c) ==
    /\ Len(done'[c]) = Len(done[c]) + 1
    /\ LET d == done'[c][Len(done'[c])]
       IN  /\ d.name \in SensitiveActionSet
           /\ d.kind = "ret"
           /\ d.success = TRUE

\* C37: when an account operation made through the dispatcher has completed,
\* the cached user state of the client equals the stored state: the savings
\* balance, the cards and the loans getAccountBalance reports from are the
\* stored ones.
C37_CacheFollowsStore ==
    [][\A c \in Users : OperationCompletes(c) => currentUser'[c] = Stored(c)']_vars

\* ------------------------------------------------------------------- C38
\* C38: no stored savings balance is ever negative, whatever transfers, card
\* and loan payments and loan disbursements have been made.
C38_BalancesNonNegative == \A u \in Users : balance[u] >= 0

\* ------------------------------------------------------------------- C39
\* C39: a stored loan whose status is 'Paid Off' has remaining balance 0, and
\* no step takes the status of a stored loan from 'Paid Off' back to 'Active'.
C39_PaidOffIsFinal ==
    /\ [](\A u \in Users : \A i \in 1..Len(loans[u]) :
            loans[u][i].status = "Paid Off" => loans[u][i].remainingBalance = 0)
    /\ [][\A u \in Users : \A i \in 1..Len(loans[u]) :
            loans[u][i].status = "Paid Off" => loans'[u][i].status # "Active"]_vars

====
